---------------------------- MODULE Spec2Model ----------------------------
(***************************************************************************)
(* Model of the message relay service (blue-relay-tools):                  *)
(*   - MessageService.deriveStatusFromRow / toUnixMsFromAppleNsEpoch       *)
(*   - MessageService.sendMessage / verifySendWithRetry and the store      *)
(*     queries they issue (findHandleForRecipient,                         *)
(*     getLastRowIdForHandle, getLastOutboundMessageForRecipient)          *)
(*   - the operations of MessageService on the store (markAsRead and the   *)
(*     read-only ones)                                                     *)
(*   - MessageParser.parseAttributedBody, NSArchiver.decode / decodeFast   *)
(*     and NSArchiver.minimalClean                                         *)
(*   - MessageService.processMessagesWithAttributedBody                    *)
(*   - FoundationBridge.decode / batchDecode and their temp files          *)
(*   - the message routes behind authenticateApiKey and the socket events  *)
(*     of the server that reach sendMessage                                *)
(*   - MessageService.initialize / startMonitoring / stopMonitoring /      *)
(*     checkNewMessages                                                    *)
(*   - SocketService: initialize, handleReconnect, sendMessage, the queue  *)
(*   - two batchDecode calls in progress at once                           *)
(*                                                                         *)
(* Time is counted in minutes.  Row dates are minutes since 2001-01-01     *)
(* (the code holds them in nanoseconds), wall-clock time is minutes since  *)
(* the Unix epoch (the code holds it in milliseconds).                     *)
(* Strings that the code inspects character by character (recipients,     *)
(* handle ids) are sequences of one-character strings.                     *)
(***************************************************************************)
EXTENDS Integers, Sequences, FiniteSets, TLC

VARIABLES
    now,        \* Date.now(), minutes since the Unix epoch
    drow,       \* DeriveSpec: the frozen record handed to deriveStatusFromRow
    dstatus,    \* DeriveSpec: the status last derived for drow
    message,    \* the store's message table: set of rows
    call,       \* per sendMessage call: its locals and its position
    isRead,     \* the is_read column of the message table: ROWIDs where it is 1
    op,         \* StoreSpec: the store operation of the service in progress
    dec,        \* DecodeSpec: one decode call, its input and its position
    batch,      \* BatchSpec: one processMessagesWithAttributedBody call
    bridge,     \* BridgeSpec: the bridge calls and the temp directory
    http,       \* ServerSpec: the HTTP request and the socket event in progress
    mon,        \* MonitorSpec: the monitor of the store and its timers
    sock,       \* SocketSpec: the connection of SocketService to the relay server
    overlap     \* OverlapSpec: two bridge calls in progress at once

\* the variables of the server, the monitor and the socket service
srv == <<http, mon, sock, overlap>>

\* the variables of the decoders and of the parts of the program around them
decv == <<dec, batch, bridge, srv>>

\* the variables the sendMessage calls and the status derivation never touch
ext == <<isRead, op, decv>>

\* the variables of the message service
msgv == <<now, drow, dstatus, message, call, isRead, op, srv>>

\* the variables of the message service and of the decoders alone
corev == <<now, drow, dstatus, message, call, isRead, op, dec, batch, bridge>>

vars == <<now, drow, dstatus, message, call, ext>>

-----------------------------------------------------------------------------
(* Values *)

\* JS null / undefined / SQL NULL of a numeric field
Null == -1

\* Date.UTC(2001, 0, 1) = 978307200000 ms = 16305120 minutes
AppleEpochUnixMin == 16305120

\* SEND_FAIL_TIMEOUT_MS = 10 * 60 * 1000 ms = 10 minutes
SEND_FAIL_TIMEOUT_MS == 10

\* date of the rows under study, minutes since 2001-01-01
DateBase == 4

\* how far the clock runs past the creation of a DateBase row
MaxElapsed == 16

StartNow == AppleEpochUnixMin + DateBase

\* a JS value used as a condition (numbers and null only)
Truthy(x) == x # Null /\ x # 0

\* the 'latest' of verifySendWithRetry before any record was found
NoRow == [rowid |-> Null]

-----------------------------------------------------------------------------
(* Status derivation *)

\* toUnixMsFromAppleNsEpoch: null for null/0, else the date moved to the Unix epoch
toUnixMsFromAppleNsEpoch(nsValue) ==
    IF ~Truthy(nsValue) THEN Null ELSE nsValue + AppleEpochUnixMin

\* the readable_date column of the query, already run through Date.parse:
\* datetime(m.date/1e9 + strftime('%s','2001-01-01'), 'unixepoch', 'localtime')
ReadableDateParsed(date) ==
    IF date = Null THEN Null ELSE date + AppleEpochUnixMin

\* a || b of JavaScript on numbers and null
JsOr(a, b) == IF Truthy(a) THEN a ELSE b

deliveredFlags(row) ==
    row.is_delivered = 1 \/ (Truthy(row.date_delivered) /\ row.date_delivered > 0)

deriveStatusFromRow_strictLess(row, nowMs) ==
    IF row = NoRow THEN "unknown"
    ELSE IF Truthy(row.error) THEN "failed"
    ELSE IF deliveredFlags(row) THEN "delivered"
    ELSE IF row.is_sent = 1 THEN "sent"
    ELSE IF row.is_finished = 1 /\ row.is_sent = 0 THEN "failed"
    ELSE LET baseMs == JsOr(toUnixMsFromAppleNsEpoch(row.date), row.readable_date)
         IN  IF row.is_from_me = 1 /\ ~deliveredFlags(row) /\ Truthy(baseMs)
                /\ nowMs - baseMs < SEND_FAIL_TIMEOUT_MS
             THEN "failed"
             ELSE "queued"

deriveStatusFromRow_deliveredFirst(row, nowMs) ==
    IF row = NoRow THEN "unknown"
    ELSE IF deliveredFlags(row) THEN "delivered"
    ELSE IF Truthy(row.error) THEN "failed"
    ELSE IF row.is_sent = 1 THEN "sent"
    ELSE IF row.is_finished = 1 /\ row.is_sent = 0 THEN "failed"
    ELSE LET baseMs == JsOr(toUnixMsFromAppleNsEpoch(row.date), row.readable_date)
         IN  IF row.is_from_me = 1 /\ ~deliveredFlags(row) /\ Truthy(baseMs)
                /\ nowMs - baseMs > SEND_FAIL_TIMEOUT_MS
             THEN "failed"
             ELSE "queued"

deriveStatusFromRow_atOrAfter(row, nowMs) ==
    IF row = NoRow THEN "unknown"
    ELSE IF Truthy(row.error) THEN "failed"
    ELSE IF deliveredFlags(row) THEN "delivered"
    ELSE IF row.is_sent = 1 THEN "sent"
    ELSE IF row.is_finished = 1 /\ row.is_sent = 0 THEN "failed"
    ELSE LET baseMs == JsOr(toUnixMsFromAppleNsEpoch(row.date), row.readable_date)
         IN  IF row.is_from_me = 1 /\ ~deliveredFlags(row) /\ Truthy(baseMs)
                /\ nowMs - baseMs >= SEND_FAIL_TIMEOUT_MS
             THEN "failed"
             ELSE "queued"

deriveStatusFromRow_nullFailed(row, nowMs) ==
    IF row = NoRow THEN "failed"
    ELSE IF Truthy(row.error) THEN "failed"
    ELSE IF deliveredFlags(row) THEN "delivered"
    ELSE IF row.is_sent = 1 THEN "sent"
    ELSE IF row.is_finished = 1 /\ row.is_sent = 0 THEN "failed"
    ELSE LET baseMs == JsOr(toUnixMsFromAppleNsEpoch(row.date), row.readable_date)
         IN  IF row.is_from_me = 1 /\ ~deliveredFlags(row) /\ Truthy(baseMs)
                /\ nowMs - baseMs > SEND_FAIL_TIMEOUT_MS
             THEN "failed"
             ELSE "queued"

\* deriveStatusFromRow: the derivedStatus it returns (failed = derivedStatus is "failed")
deriveStatusFromRow(row, nowMs) ==
    IF row = NoRow THEN "unknown"
    ELSE IF Truthy(row.error) THEN "failed"
    ELSE IF deliveredFlags(row) THEN "delivered"
    ELSE IF row.is_sent = 1 THEN "sent"
    ELSE IF row.is_finished = 1 /\ row.is_sent = 0 THEN "failed"
    ELSE LET baseMs == JsOr(toUnixMsFromAppleNsEpoch(row.date), row.readable_date)
         IN  IF row.is_from_me = 1 /\ ~deliveredFlags(row) /\ Truthy(baseMs)
                /\ nowMs - baseMs > SEND_FAIL_TIMEOUT_MS
             THEN "failed"
             ELSE "queued"

-----------------------------------------------------------------------------
(* Rows as the query of getLastOutboundMessageForRecipient returns them *)

FlagValues == {Null, 0, 1}

\* the row a query returns for a stored message m: its columns plus readable_date
QueryRow(m) ==
    [rowid |-> m.rowid, handle_id |-> m.handle_id, date |-> m.date,
     readable_date |-> ReadableDateParsed(m.date),
     is_from_me |-> m.is_from_me, is_sent |-> m.is_sent,
     is_delivered |-> m.is_delivered, is_finished |-> m.is_finished,
     error |-> m.error, date_delivered |-> m.date_delivered,
     body |-> m.body]

\* the records deriveStatusFromRow is studied on
DeriveInputs ==
    { QueryRow([rowid |-> 1, handle_id |-> 1, date |-> d, is_from_me |-> fm,
                is_sent |-> s, is_delivered |-> dl, is_finished |-> f,
                error |-> e, date_delivered |-> dd, body |-> TRUE]) :
        d \in {Null, 0, DateBase}, fm \in FlagValues, s \in FlagValues,
        dl \in FlagValues, f \in FlagValues, e \in {Null, 0, 1, 22},
        dd \in {Null, 0, DateBase + 1} }

-----------------------------------------------------------------------------
(* Strings: recipients and handle ids *)

Str_Ab     == <<"A", "b">>
Str_ab     == <<"a", "b">>
Str_AB     == <<"A", "B">>
Str_09     == <<"0", "9">>
Str_0sp9   == <<"0", " ", "9">>
Str_9      == <<"9">>
Str_p849   == <<"+", "8", "4", "9">>
Str_tel    == <<"t", "e", "l", ":">>
Str_p84    == <<"+", "8", "4">>

LowerChar(ch) ==
    CASE ch = "A" -> "a"
      [] ch = "B" -> "b"
      [] OTHER    -> ch

\* String.prototype.toLowerCase
toLowerCase(s) == [i \in 1..Len(s) |-> LowerChar(s[i])]

\* s.replace(/[^0-9+]/g, '')
IsDigitOrPlus(ch) == ch \in {"0", "1", "2", "3", "4", "5", "6", "7", "8", "9", "+"}
DigitsOf(s) == SelectSeq(s, IsDigitOrPlus)

startsWith(s, p) == Len(s) >= Len(p) /\ SubSeq(s, 1, Len(p)) = p

\* s.slice(1)
Slice1(s) == SubSeq(s, 2, Len(s))

\* Set.prototype.add on an insertion-ordered set
SetAdd(out, x) == IF \E i \in 1..Len(out) : out[i] = x THEN out ELSE Append(out, x)

\* generateRecipientCandidates: the candidate forms, in insertion order
generateRecipientCandidates(recipient) ==
    IF recipient = <<>> THEN <<>>
    ELSE LET o1 == SetAdd(SetAdd(<<>>, recipient), toLowerCase(recipient))
             digits == DigitsOf(recipient)
             o2 == IF digits = <<>> THEN o1
                   ELSE LET a == SetAdd(o1, digits)
                            b == IF ~startsWith(digits, Str_tel)
                                 THEN SetAdd(a, Str_tel \o digits) ELSE a
                        IN  IF startsWith(digits, <<"0">>)
                            THEN SetAdd(SetAdd(b, Str_p84 \o Slice1(digits)),
                                        Str_tel \o Str_p84 \o Slice1(digits))
                            ELSE b
         IN  o2

\* id COLLATE NOCASE = ? COLLATE NOCASE
NoCaseEq(a, b) == toLowerCase(a) = toLowerCase(b)

-----------------------------------------------------------------------------
(* The store: handle table and message table *)

\* the handle table; handles 1 and 4 carry the same id up to case
HandleTable ==
    { [handle_id |-> 1, id |-> Str_ab],
      [handle_id |-> 2, id |-> Str_09],
      [handle_id |-> 3, id |-> Str_p849],
      [handle_id |-> 4, id |-> Str_AB] }

HandleIds == { h.handle_id : h \in HandleTable }

\* SELECT ROWID AS handle_id, id FROM handle WHERE id = ? COLLATE NOCASE
HandlesMatching(s) == { h \in HandleTable : NoCaseEq(h.id, s) }

\* ... LIMIT 1: the row of lowest ROWID among the matches
FirstHandleMatching(s) ==
    CHOOSE h \in HandlesMatching(s) :
        \A g \in HandlesMatching(s) : h.handle_id <= g.handle_id

NoHandle == [handle_id |-> Null, id |-> <<>>]

RECURSIVE FindFrom(_, _)
FindFrom(cands, k) ==
    IF k > Len(cands) THEN NoHandle
    ELSE IF HandlesMatching(cands[k]) # {} THEN FirstHandleMatching(cands[k])
    ELSE FindFrom(cands, k + 1)

\* findHandleForRecipient: the handle of the first candidate that matches, else null
findHandleForRecipient(recipient) ==
    FindFrom(generateRecipientCandidates(recipient), 1)

MaxOf(S) == IF S = {} THEN 0 ELSE CHOOSE x \in S : \A y \in S : y <= x

\* getLastRowIdForHandle: SELECT MAX(ROWID) FROM message WHERE handle_id = ?, or 0
getLastRowIdForHandle(handleId) ==
    MaxOf({ m.rowid : m \in { x \in message : x.handle_id = handleId } })

OutboundRowsFor_anyHandle(handleIds, sinceRowId) ==
    { m \in message : /\ m.is_from_me = 1
                      /\ m.body
                      /\ m.rowid > sinceRowId }

\* the rows the query of getLastOutboundMessageForRecipient selects from
OutboundRowsFor(handleIds, sinceRowId) ==
    { m \in message : /\ m.handle_id \in handleIds
                      /\ m.is_from_me = 1
                      /\ m.body
                      /\ m.rowid > sinceRowId }

\* ORDER BY m.date DESC LIMIT 1: the rows that may come first
NewestByDate(rows) == { m \in rows : \A x \in rows : x.date <= m.date }

getLastOutboundMessageForRecipient_broad(recipient, sinceRowId) ==
    IF findHandleForRecipient(recipient) = NoHandle
    THEN { QueryRow(m) : m \in NewestByDate(OutboundRowsFor(HandleIds, sinceRowId)) }
    ELSE LET handleIds == { h.handle_id : h \in HandlesMatching(recipient) }
         IN  IF handleIds = {} THEN {}
             ELSE { QueryRow(m) : m \in NewestByDate(OutboundRowsFor(handleIds, sinceRowId)) }

\* getLastOutboundMessageForRecipient: the rows it may return; {} stands for null
getLastOutboundMessageForRecipient(recipient, sinceRowId) ==
    IF findHandleForRecipient(recipient) = NoHandle THEN {}
    ELSE LET handleIds == { h.handle_id : h \in HandlesMatching(recipient) }
         IN  IF handleIds = {} THEN {}
             ELSE { QueryRow(m) : m \in NewestByDate(OutboundRowsFor(handleIds, sinceRowId)) }

-----------------------------------------------------------------------------
(* sendMessage calls *)

\* the concurrent sendMessage calls
Calls == {1, 2}

\* the recipients: two whose string is a handle id up to case, one only a
\* candidate form of which is a handle id, one no form of which is a handle id
Recipients == {Str_Ab, Str_09, Str_0sp9, Str_9}

\* the recipients of two concurrent calls
RecipientPairs ==
    { <<Str_Ab, Str_09>>, <<Str_Ab, Str_Ab>>, <<Str_0sp9, Str_Ab>> }

\* buddy "<to>" of svc: the handles under which the Messages application files
\* a message sent to the recipient
BuddyHandles(to) ==
    CASE to = Str_Ab   -> {1, 4}
      [] to = Str_09   -> {2}
      [] to = Str_0sp9 -> {2}
      [] to = Str_9    -> {3}
      [] OTHER         -> {}

\* verifySendWithRetry(recipient, snapshotRowId, attempts = 5, delayMs = 400)
attempts == 5

\* rows the message table may hold
MaxRows == 5

\* what appleScript.sendMessage resolves to; "throw" stands for a rejected promise
SendOutcomes == {"success", "error: buddy not found", "throw"}

NoRet == [success |-> FALSE, result |-> "none", error |-> "none",
          verification |-> NoRow, derivedStatus |-> "none"]

\* flag settings of the rows the Messages application writes
RowShapes ==
    { [is_sent |-> 0, is_delivered |-> 0, is_finished |-> 0, error |-> 0, date_delivered |-> 0],
      [is_sent |-> 1, is_delivered |-> 1, is_finished |-> 1, error |-> 0, date_delivered |-> DateBase],
      [is_sent |-> 0, is_delivered |-> 0, is_finished |-> 1, error |-> 22, date_delivered |-> 0] }

MkRow(rowid, handleId, date, fromMe, shape) ==
    [rowid |-> rowid, handle_id |-> handleId, date |-> date, is_from_me |-> fromMe,
     is_sent |-> shape.is_sent, is_delivered |-> shape.is_delivered,
     is_finished |-> shape.is_finished, error |-> shape.error,
     date_delivered |-> shape.date_delivered, body |-> TRUE]

\* rows that may be in the store before any call: an old sent row for "ab", an
\* old unsent row for "09", an inbound row of "ab"
OldSent   == MkRow(1, 1, DateBase, 1, [is_sent |-> 1, is_delivered |-> 0, is_finished |-> 1,
                                       error |-> 0, date_delivered |-> 0])
OldQueued == MkRow(2, 2, DateBase, 1, [is_sent |-> 0, is_delivered |-> 0, is_finished |-> 0,
                                       error |-> 0, date_delivered |-> 0])
OldInbound == MkRow(3, 1, DateBase + 1, 0, [is_sent |-> 0, is_delivered |-> 1, is_finished |-> 1,
                                            error |-> 0, date_delivered |-> 0])

MaxRowId == MaxOf({ m.rowid : m \in message })

\* Snapshot before sending (sendMessage, first try block): the last row id of the
\* resolved handle, null when the recipient resolves to no handle
Snapshot(c) ==
    /\ call[c].pc = "snapshot"
    /\ LET handleRow == findHandleForRecipient(call[c].to)
       IN  call' = [call EXCEPT ![c].pc = "send",
                                ![c].snapshot = IF handleRow = NoHandle THEN Null
                                                ELSE getLastRowIdForHandle(handleRow.handle_id)]
    /\ UNCHANGED <<now, drow, dstatus, message, ext>>

\* ... a query of the snapshot throws: catch (e) { /* ignore */ }
SnapshotThrows(c) ==
    /\ call[c].pc = "snapshot"
    /\ call' = [call EXCEPT ![c].pc = "send", ![c].snapshot = Null]
    /\ UNCHANGED <<now, drow, dstatus, message, ext>>

\* appleScript.sendMessage(to, body) is invoked
SendInvoke(c) ==
    /\ call[c].pc = "send"
    /\ call' = [call EXCEPT ![c].pc = "sending",
                            ![c].sends = @ + 1,
                            ![c].maxAtSend = MaxRowId]
    /\ UNCHANGED <<now, drow, dstatus, message, ext>>

SendSucceeded_truthy(result) == result # "throw"

\* if (result === 'success')
SendSucceeded(result) == result = "success"

logToFile_noCatch(appendFails) == appendFails

\* logger.logToFile: JSON.stringify and fs.appendFile run inside try/catch, the
\* catch only writes to the console. TRUE iff the call throws to its caller
logToFile(appendFails) == FALSE

\* logger.logSentMessage and logger.logError end in await this.logToFile(logEntry)
logSentMessage(appendFails) == logToFile(appendFails)
logError(appendFails) == logToFile(appendFails)

\* appleScript.sendMessage resolves or rejects; sendMessage branches on the result.
\* The snapshot is handed to verifySendWithRetry, which never reads its
\* snapshotRowId parameter: the local is dead from here on and is dropped.
\* An error string is logged in the else branch; a throw there, like a rejected
\* send, lands in the outer catch, which logs again outside any try block.
SendReturn(c) ==
    /\ call[c].pc = "sending"
    /\ \E r \in SendOutcomes, f1 \in BOOLEAN, f2 \in BOOLEAN :
        LET inCatch == r = "throw" \/ (~SendSucceeded(r) /\ logError(f1))
            raised  == inCatch /\ logError(f2)
        IN  call' = [call EXCEPT
            ![c].result = r,
            ![c].snapshot = Null,
            ![c].pc = IF SendSucceeded(r) THEN "poll"
                      ELSE IF raised THEN "raised" ELSE "done",
            ![c].ret = IF SendSucceeded(r) \/ raised THEN @
                       ELSE IF inCatch
                       THEN [NoRet EXCEPT !.error = "error.message"]
                       ELSE [NoRet EXCEPT !.error = r]]
    /\ UNCHANGED <<now, drow, dstatus, message, ext>>

Poll_noBreak(c) ==
    /\ call[c].pc = "poll"
    /\ LET found == getLastOutboundMessageForRecipient(call[c].to, 0)
       IN  \/ /\ found = {}
              /\ call' = [call EXCEPT ![c].pc = "sleep", ![c].polls = @ + 1,
                                      ![c].polledAfterWrite = @ \/ call[c].wrote]
           \/ \E row \in found :
                call' = [call EXCEPT ![c].pc = "sleep", ![c].polls = @ + 1,
                                     ![c].polledAfterWrite = @ \/ call[c].wrote,
                                     ![c].latest = row]
    /\ UNCHANGED <<now, drow, dstatus, message, ext>>

\* one pass of the loop of verifySendWithRetry: the query returns a row or null
Poll(c) ==
    /\ call[c].pc = "poll"
    /\ LET found == getLastOutboundMessageForRecipient(call[c].to, 0)
       IN  \/ /\ found = {}
              /\ call' = [call EXCEPT ![c].pc = "sleep", ![c].polls = @ + 1,
                                      ![c].polledAfterWrite = @ \/ call[c].wrote]
           \/ \E row \in found :
                call' = [call EXCEPT ![c].pc = "derive", ![c].polls = @ + 1,
                                     ![c].polledAfterWrite = @ \/ call[c].wrote,
                                     ![c].latest = row]
    /\ UNCHANGED <<now, drow, dstatus, message, ext>>

\* ... the query throws: the catch block logs, the loop goes on to sleep
PollThrows(c) ==
    /\ call[c].pc = "poll"
    /\ call' = [call EXCEPT ![c].pc = "sleep", ![c].polls = @ + 1]
    /\ UNCHANGED <<now, drow, dstatus, message, ext>>

\* await this.sleep(delayMs); i++; i < attempts
Sleep(c) ==
    /\ call[c].pc = "sleep"
    /\ call' = [call EXCEPT ![c].i = @ + 1,
                            ![c].pc = IF call[c].i + 1 < attempts THEN "poll" ELSE "derive"]
    /\ UNCHANGED <<now, drow, dstatus, message, ext>>

SuccessOf_always(derivedStatus) == TRUE

\* const success = derivedStatus !== 'failed'
SuccessOf(derivedStatus) == derivedStatus # "failed"

\* the end of verifySendWithRetry and the success branch of sendMessage; the
\* locals of the loop go out of scope. logSentMessage runs before the return:
\* a throw there lands in the outer catch
Finish(c) ==
    /\ call[c].pc = "derive"
    /\ \E f1 \in BOOLEAN, f2 \in BOOLEAN :
       LET derivedStatus == deriveStatusFromRow(call[c].latest, now)
           inCatch == logSentMessage(f1)
           raised  == inCatch /\ logError(f2)
       IN  call' = [call EXCEPT
               ![c].pc = IF raised THEN "raised" ELSE "done",
               ![c].i = 0,
               ![c].latest = NoRow,
               ![c].ret = IF raised THEN @
                          ELSE IF inCatch
                          THEN [NoRet EXCEPT !.error = "error.message"]
                          ELSE [success |-> SuccessOf(derivedStatus),
                                result |-> call[c].result, error |-> "none",
                                verification |-> call[c].latest,
                                derivedStatus |-> derivedStatus]]
    /\ UNCHANGED <<now, drow, dstatus, message, ext>>

\* The Messages application writes the row of a send that was invoked, under a
\* handle of its choosing
AutomationWrite(c) ==
    /\ call[c].pc \notin {"snapshot", "send"}
    /\ ~call[c].wrote
    /\ Cardinality(message) < MaxRows
    /\ \E h \in BuddyHandles(call[c].to), shape \in RowShapes :
        message' = message \cup
            { MkRow(MaxRowId + 1, h, now - AppleEpochUnixMin, 1, shape) }
    /\ call' = [call EXCEPT ![c].wrote = TRUE]
    /\ UNCHANGED <<now, drow, dstatus, ext>>

InitCall(to) ==
    [pc |-> "snapshot", to |-> to, snapshot |-> Null, result |-> "none", i |-> 0,
     latest |-> NoRow, ret |-> NoRet,
     \* history: sendAction invocations, store polls, MAX(ROWID) when sendAction
     \* was invoked, whether the row of this send was written, and whether a
     \* poll that did not throw ran after it was
     sends |-> 0, polls |-> 0, maxAtSend |-> 0, wrote |-> FALSE,
     polledAfterWrite |-> FALSE]

\* a call that is never made
IdleCall == [InitCall(<<>>) EXCEPT !.pc = "idle"]

\* no store operation in progress
NoOp == [name |-> "none", sender |-> <<>>, phase |-> "idle", result |-> Null]

\* no decode call, no batch, no bridge call
NoDec == [pc |-> "idle"]
NoBatch == [pc |-> "idle"]
NoBridge == [pc |-> "idle"]

\* no request, no monitor, no connection, no overlapping bridge calls
NoHttp == [pc |-> "idle"]
NoMon == [pc |-> "idle"]
NoSock == [pc |-> "idle"]
NoOverlap == [pc |-> "idle"]

SrvIdle ==
    /\ http = NoHttp
    /\ mon = NoMon
    /\ sock = NoSock
    /\ overlap = NoOverlap

\* the state of the variables of ext when nothing uses them
ExtIdle ==
    /\ isRead = {}
    /\ op = NoOp
    /\ dec = NoDec
    /\ batch = NoBatch
    /\ bridge = NoBridge
    /\ SrvIdle

\* one sendMessage call
Init ==
    /\ now = StartNow + SEND_FAIL_TIMEOUT_MS + 1
    /\ drow = NoRow
    /\ dstatus = "none"
    /\ \E old \in SUBSET {OldSent, OldQueued} : message = old \cup {OldInbound}
    /\ \E to \in Recipients :
         call = [c \in Calls |-> IF c = 1 THEN InitCall(to) ELSE IdleCall]
    /\ ExtIdle

\* two concurrent sendMessage calls
ConcInit ==
    /\ now = StartNow + SEND_FAIL_TIMEOUT_MS + 1
    /\ drow = NoRow
    /\ dstatus = "none"
    /\ message = {OldSent, OldQueued, OldInbound}
    /\ call \in { [c \in Calls |-> InitCall(p[c])] : p \in RecipientPairs }
    /\ ExtIdle

Next ==
    \E c \in Calls :
        \/ Snapshot(c)
        \/ SnapshotThrows(c)
        \/ SendInvoke(c)
        \/ SendReturn(c)
        \/ Poll(c)
        \/ PollThrows(c)
        \/ Sleep(c)
        \/ Finish(c)
        \/ AutomationWrite(c)

Spec == Init /\ [][Next]_vars

ConcSpec == ConcInit /\ [][Next]_vars

\* one sendMessage call whose awaited steps (the store queries, the send
\* action, the sleep timer) all come back
LiveSpec == Init /\ [][Next]_vars /\ WF_vars(Next)

-----------------------------------------------------------------------------
(* DeriveSpec: deriveStatusFromRow re-evaluated on a frozen record as the clock advances *)

DeriveInit ==
    /\ now = StartNow
    /\ drow \in DeriveInputs
    /\ dstatus = deriveStatusFromRow(drow, now)
    /\ message = {}
    /\ call = [c \in Calls |-> IdleCall]
    /\ ExtIdle

DeriveTick ==
    /\ now < StartNow + MaxElapsed
    /\ now' = now + 1
    /\ dstatus' = deriveStatusFromRow(drow, now')
    /\ UNCHANGED <<drow, message, call, ext>>

DeriveNext == DeriveTick

DeriveSpec == DeriveInit /\ [][DeriveNext]_vars

-----------------------------------------------------------------------------
(* Claims on status derivation, checked under DeriveSpec *)

\* the creation time of the frozen record, when one is derivable
HasCreationTime(row) == row.date # Null
CreationTime(row) == row.date + AppleEpochUnixMin

\* C1: a record whose error field is present and non-zero derives failed,
\* whatever its other flags and its age.
C1_ErrorYieldsFailed ==
    Truthy(drow.error) => dstatus = "failed"

C1_Witness ==
    /\ Truthy(drow.error)
    /\ drow.is_delivered = 1
    /\ Truthy(drow.date_delivered)
    /\ drow.is_sent = 1
    /\ dstatus = "failed"

\* C2: an outbound record with is_sent = 1, is_delivered = 0, no delivered
\* timestamp and no error derives sent while now - creationTime is within the
\* timeout and failed once now - creationTime exceeds it.
C2_SentEscalatesToFailed ==
    ( /\ drow.is_from_me = 1
      /\ drow.is_sent = 1
      /\ drow.is_delivered = 0
      /\ ~Truthy(drow.date_delivered)
      /\ ~Truthy(drow.error)
      /\ HasCreationTime(drow) )
    => dstatus = IF now - CreationTime(drow) > SEND_FAIL_TIMEOUT_MS
                 THEN "failed" ELSE "sent"

\* C3: once a frozen record derives failed, it derives failed at every later time.
C3_FailedIsAbsorbing ==
    [][dstatus = "failed" => dstatus' = "failed"]_vars

\* a record failed by the timeout alone, re-evaluated after it first failed
C3_Witness ==
    /\ dstatus = "failed"
    /\ ~Truthy(drow.error)
    /\ drow.is_finished # 1
    /\ now - CreationTime(drow) > SEND_FAIL_TIMEOUT_MS + 1

\* the rule list of the specification, first match wins; a flag is true when
\* it is 1 and false otherwise (0, null or absent)
ReferenceStatus(row, t) ==
    IF Truthy(row.error) THEN "failed"
    ELSE IF row.is_delivered = 1 \/ Truthy(row.date_delivered) THEN "delivered"
    ELSE IF row.is_sent = 1 THEN "sent"
    ELSE IF row.is_finished = 1 /\ row.is_sent # 1 THEN "failed"
    ELSE IF /\ row.is_from_me = 1
            /\ HasCreationTime(row)
            /\ t - CreationTime(row) > SEND_FAIL_TIMEOUT_MS THEN "failed"
    ELSE "queued"

\* C4 as stated: for every combination of record fields, null flags included,
\* and every now, the derived status is the one the rule list gives.
C4_AgreesWithRuleList ==
    dstatus = ReferenceStatus(drow, now)

\* the rule list with rule (4) firing only on is_sent exactly 0
StrictReferenceStatus(row, t) ==
    IF Truthy(row.error) THEN "failed"
    ELSE IF row.is_delivered = 1 \/ Truthy(row.date_delivered) THEN "delivered"
    ELSE IF row.is_sent = 1 THEN "sent"
    ELSE IF row.is_finished = 1 /\ row.is_sent = 0 THEN "failed"
    ELSE IF /\ row.is_from_me = 1
            /\ HasCreationTime(row)
            /\ t - CreationTime(row) > SEND_FAIL_TIMEOUT_MS THEN "failed"
    ELSE "queued"

\* C4 amended: the derived status is the one the rule list gives when rule (4)
\* is read as "is_finished is 1 and is_sent is exactly 0"; a record with
\* is_finished = 1 and a null is_sent falls through to rules (5) and (6).
C4_AgreesWithStrictRuleList ==
    dstatus = StrictReferenceStatus(drow, now)

\* a finished record with a null is_sent that is not failed, and a record
\* exactly at the timeout that is still queued
C4_Witness ==
    /\ drow.is_finished = 1
    /\ drow.is_sent = Null
    /\ drow.is_from_me = 1
    /\ HasCreationTime(drow)
    /\ now - CreationTime(drow) = SEND_FAIL_TIMEOUT_MS
    /\ dstatus = "queued"

-----------------------------------------------------------------------------
(* Claims on sendMessage, checked under Spec (one call) and ConcSpec (two) *)

Returned(c) == call[c].pc = "done"

\* sendAction returned a string other than "success"
ReturnedErrorString(c) ==
    Returned(c) /\ call[c].result \notin {"none", "success", "throw"}

\* sendAction returned "success" and sendMessage has returned
ReturnedAfterSuccess(c) ==
    Returned(c) /\ call[c].result = "success"

\* the handles whose id is the recipient string up to case
HandleIdsOf(to) == { h.handle_id : h \in HandlesMatching(to) }

\* C5: when sendAction returns a string other than "success", sendMessage
\* returns success = false with that string as the error, after no poll of the
\* store and exactly one invocation of sendAction.
C5_ShortCircuit ==
    \A c \in Calls :
        ReturnedErrorString(c) =>
            /\ call[c].ret.success = FALSE
            /\ call[c].ret.error = call[c].result
            /\ call[c].ret.verification = NoRow
            /\ call[c].polls = 0
            /\ call[c].sends = 1

\* an error string returned although the row of the send reached the store
C5_Witness ==
    \E c \in Calls :
        /\ ReturnedErrorString(c)
        /\ call[c].wrote
        /\ OutboundRowsFor(HandleIdsOf(call[c].to), 0) # {}

C7_FoundIsSuccess ==
    \A c \in Calls :
        (ReturnedAfterSuccess(c) /\ call[c].ret.verification # NoRow) =>
            /\ call[c].ret.success = TRUE
            /\ call[c].ret.derivedStatus = deriveStatusFromRow(call[c].ret.verification, now)

\* C7 amended: when sendAction returns "success" and a poll finds a row,
\* sendMessage returns that row, an outbound row of a handle whose id is the
\* recipient, with the status derived from it, and success = true exactly
\* when that status is not failed.
C7_FoundIsDerived ==
    \A c \in Calls :
        (ReturnedAfterSuccess(c) /\ call[c].ret.verification # NoRow) =>
            /\ \E m \in OutboundRowsFor(HandleIdsOf(call[c].to), 0) :
                    call[c].ret.verification = QueryRow(m)
            /\ call[c].ret.derivedStatus = deriveStatusFromRow(call[c].ret.verification, now)
            /\ call[c].ret.success = (call[c].ret.derivedStatus # "failed")
            /\ call[c].polls <= attempts

\* the row of the send found on the second poll or later, with an error code
C7_Witness ==
    \E c \in Calls :
        /\ ReturnedAfterSuccess(c)
        /\ call[c].ret.verification # NoRow
        /\ call[c].ret.verification.rowid > call[c].maxAtSend
        /\ call[c].polls >= 2
        /\ call[c].ret.derivedStatus = "failed"
        /\ call[c].ret.success = FALSE

\* C8: the verification record returned after a successful send action was
\* written to the store after sendAction was invoked for this call.
C8_VerificationIsNewRow ==
    \A c \in Calls :
        (ReturnedAfterSuccess(c) /\ call[c].ret.verification # NoRow) =>
            call[c].ret.verification.rowid > call[c].maxAtSend

\* no candidate form of the recipient is the id of a handle
Unresolved(to) == findHandleForRecipient(to) = NoHandle

\* C9 as stated: when no candidate form of the recipient matches a handle, an
\* outbound record written for the send before a poll is found and returned.
C9_UnresolvedSearchesBroadly ==
    \A c \in Calls :
        (ReturnedAfterSuccess(c) /\ Unresolved(call[c].to) /\ call[c].polledAfterWrite) =>
            call[c].ret.verification # NoRow

\* C9 amended: when no candidate form of the recipient matches a handle, every
\* poll returns no record without searching the message table, and sendMessage
\* returns no verification record, status unknown and success = true after
\* attempts polls, whether or not a record was written for the send.
C9_UnresolvedFindsNothing ==
    \A c \in Calls :
        /\ (Unresolved(call[c].to) /\ call[c].pc # "idle") => call[c].latest = NoRow
        /\ (ReturnedAfterSuccess(c) /\ Unresolved(call[c].to)) =>
                /\ call[c].ret.verification = NoRow
                /\ call[c].ret.derivedStatus = "unknown"
                /\ call[c].ret.success = TRUE
                /\ call[c].polls = attempts

C9_Witness ==
    \E c \in Calls :
        /\ ReturnedAfterSuccess(c)
        /\ Unresolved(call[c].to)
        /\ call[c].polledAfterWrite
        /\ \E m \in message : m.rowid > call[c].maxAtSend /\ m.is_from_me = 1
        /\ call[c].ret.verification = NoRow

\* the two calls' recipients resolve to different handles
DifferentHandles(c, d) ==
    /\ ~Unresolved(call[c].to)
    /\ ~Unresolved(call[d].to)
    /\ findHandleForRecipient(call[c].to) # findHandleForRecipient(call[d].to)

\* C10: of two concurrent calls whose recipients resolve to different handles,
\* each holds and returns only rows of a handle of its own recipient, never of
\* the other's, and every step changes the locals of one call only.
C10_Independent ==
    [][ \A c \in Calls, d \in Calls :
            (c # d /\ call'[c] # call[c]) =>
                /\ call'[d] = call[d]
                /\ \A row \in {call'[c].latest, call'[c].ret.verification} \ {NoRow} :
                        DifferentHandles(c, d) =>
                            /\ row.handle_id \in HandleIdsOf(call[c].to)
                            /\ row.handle_id \notin HandleIdsOf(call[d].to) ]_vars

\* both calls have returned a row, each after the other call's row was written
C10_Witness ==
    /\ DifferentHandles(1, 2)
    /\ \A c \in Calls :
        /\ ReturnedAfterSuccess(c)
        /\ call[c].ret.verification # NoRow
        /\ call[c].polledAfterWrite
    /\ call[1].ret.verification.rowid # call[2].ret.verification.rowid

-----------------------------------------------------------------------------
(* Claims on error handling of sendMessage, checked under Spec *)

\* C11: whatever the snapshot queries, the send, the polls and the logger do,
\* no sendMessage call ends by throwing, and a call that has returned carries a
\* result object with a boolean success field.
C11_NeverRaises ==
    \A c \in Calls :
        /\ call[c].pc # "raised"
        /\ Returned(c) => call[c].ret # NoRet /\ call[c].ret.success \in BOOLEAN

\* the send rejected and the call returned { success: false, error }
C11_Witness ==
    \E c \in Calls :
        /\ Returned(c)
        /\ call[c].result = "throw"
        /\ call[c].ret.success = FALSE
        /\ call[c].ret.error = "error.message"

-----------------------------------------------------------------------------
(* StoreSpec: the operations of the message service on the store, next to one
   sendMessage call and the Messages application *)

\* the senders the operations are called with: a handle id as stored and the
\* same id in another case
Senders == {Str_ab, Str_Ab}

\* the operations whose statements on the store are all SELECT
ReadOps == {"getMessages", "getConversations", "getMessageCount", "checkNewMessages"}

\* (SELECT ROWID FROM handle WHERE id = ?): the comparison is case-sensitive;
\* the handles the scalar subquery may yield
HandlesExact(sender) == { h.handle_id : h \in { x \in HandleTable : x.id = sender } }

markAsReadRows_anyDirection(handleId) ==
    { m.rowid : m \in { x \in message : x.handle_id = handleId } }

\* UPDATE message SET is_read = 1 WHERE handle_id = (...) AND is_from_me = 0:
\* the rows the statement updates
markAsReadRows(handleId) ==
    { m.rowid : m \in { x \in message : x.handle_id = handleId /\ x.is_from_me = 0 } }

\* SELECT COUNT(*) FROM message m WHERE m.handle_id = ?, for the first handle
\* whose id equals the sender up to case (no ORDER BY: any of them); 0 if none
getMessageCount(sender) ==
    IF HandlesMatching(sender) = {} THEN {0}
    ELSE { Cardinality({ m \in message : m.handle_id = h.handle_id }) :
             h \in HandlesMatching(sender) }

\* an operation is called
OpCall ==
    /\ op.phase # "running"
    /\ \E name \in ReadOps \cup {"markAsRead"}, sender \in Senders :
         op' = [name |-> name, sender |-> sender, phase |-> "running", result |-> Null]
    /\ UNCHANGED <<now, drow, dstatus, message, call, isRead, decv>>

\* getMessages, getConversations, getMessageCount, checkNewMessages run their
\* queries (db.all / db.get of SELECT statements) and return; a query that
\* throws is caught by the operation. The parameters go out of scope
ReadOpReturn ==
    /\ op.phase = "running"
    /\ op.name \in ReadOps
    /\ \/ /\ op.name = "getMessageCount"
          /\ \E n \in getMessageCount(op.sender) :
               op' = [op EXCEPT !.phase = "returned", !.sender = <<>>, !.result = n]
       \/ /\ op.name # "getMessageCount"
          /\ op' = [op EXCEPT !.phase = "returned", !.sender = <<>>]
    /\ UNCHANGED <<now, drow, dstatus, message, call, isRead, decv>>

\* markAsRead: db.run of the UPDATE, return { success: true }
MarkAsRead ==
    /\ op.phase = "running"
    /\ op.name = "markAsRead"
    /\ \/ \E h \in HandlesExact(op.sender) : isRead' = isRead \cup markAsReadRows(h)
       \/ HandlesExact(op.sender) = {} /\ isRead' = isRead
    /\ op' = [op EXCEPT !.phase = "returned", !.sender = <<>>, !.result = 1]
    /\ UNCHANGED <<now, drow, dstatus, message, call, decv>>

\* ... db.run throws (database locked or not writable): return { success: false }
MarkAsReadThrows ==
    /\ op.phase = "running"
    /\ op.name = "markAsRead"
    /\ op' = [op EXCEPT !.phase = "returned", !.sender = <<>>, !.result = 0]
    /\ UNCHANGED <<now, drow, dstatus, message, call, isRead, decv>>

\* The Messages application files a received message
AutomationReceive ==
    /\ Cardinality(message) < MaxRows
    /\ \E h \in {1, 4} :
        message' = message \cup
            { MkRow(MaxRowId + 1, h, now - AppleEpochUnixMin, 0,
                    [is_sent |-> 0, is_delivered |-> 1, is_finished |-> 1,
                     error |-> 0, date_delivered |-> 0]) }
    /\ UNCHANGED <<now, drow, dstatus, call, ext>>

StoreInit ==
    /\ now = StartNow + SEND_FAIL_TIMEOUT_MS + 1
    /\ drow = NoRow
    /\ dstatus = "none"
    /\ message = {OldSent, OldInbound}
    /\ call = [c \in Calls |-> IF c = 1 THEN InitCall(Str_Ab) ELSE IdleCall]
    /\ ExtIdle

StoreNext ==
    \/ OpCall
    \/ ReadOpReturn
    \/ MarkAsRead
    \/ MarkAsReadThrows
    \/ AutomationReceive
    \/ Next

StoreSpec == StoreInit /\ [][StoreNext]_vars

\* a step of the service: an operation returns, or the sendMessage call moves
\* (AutomationWrite, the step of the Messages application, sets wrote)
ServiceStep ==
    \/ op.phase = "running" /\ op'.phase = "returned"
    \/ \E c \in Calls : call'[c] # call[c] /\ call'[c].wrote = call[c].wrote

\* C12: no step of the service (sendMessage and its queries, getMessages,
\* getConversations, getMessageCount, checkNewMessages, markAsRead) changes the
\* rows of the store or any of their fields.
C12_StoreOnlyRead ==
    [][ServiceStep => message' = message /\ isRead' = isRead]_vars

\* C12 amended: markAsRead is the one operation that writes: it sets is_read on
\* the received rows of the handle whose id is exactly the sender and touches
\* nothing else; no other step of the service changes the store.
C12_OnlyMarkAsReadWrites ==
    [][ServiceStep =>
         /\ message' = message
         /\ IF op.phase = "running" /\ op'.phase = "returned" /\ op.name = "markAsRead"
            THEN /\ isRead \subseteq isRead'
                 /\ \A r \in isRead' \ isRead :
                      \E m \in message :
                          /\ m.rowid = r
                          /\ m.is_from_me = 0
                          /\ m.handle_id \in HandlesExact(op.sender)
            ELSE isRead' = isRead]_vars

\* markAsRead("ab") has returned and a received row of "ab" is now read
C12_Witness ==
    /\ op.name = "markAsRead"
    /\ op.phase = "returned"
    /\ op.result = 1
    /\ OldInbound.rowid \in isRead
    /\ OldSent.rowid \notin isRead

-----------------------------------------------------------------------------
(* Text cleaning (NSArchiver.minimalClean) *)

\* the texts a strategy may extract: a clean text, a text of one control
\* character, a text with a run of three blanks, a text with a leading blank
Txt_Hi     == <<"H", "i">>
Txt_Ctl    == <<"^A">>
Txt_H3i    == <<"H", " ", " ", " ", "i">>
Txt_spHi   == <<" ", "H", "i">>
RawTexts == {Txt_Hi, Txt_Ctl, Txt_H3i, Txt_spHi}

\* [\x00-\x08\x0B\x0C\x0E-\x1F\x7F] and \uFEFF
IsControl(ch) == ch \in {"^A", "BOM"}
IsSpace(ch) == ch = " "
NotControl(ch) == ~IsControl(ch)

\* the number of whitespace characters s starts with
RECURSIVE SpaceRun(_)
SpaceRun(s) ==
    IF s = <<>> \/ ~IsSpace(Head(s)) THEN 0 ELSE 1 + SpaceRun(Tail(s))

\* .replace(/\s{3,}/g, '  ')
RECURSIVE CollapseSpaces(_)
CollapseSpaces(s) ==
    IF s = <<>> THEN <<>>
    ELSE LET n == SpaceRun(s)
         IN  IF n = 0 THEN <<Head(s)>> \o CollapseSpaces(Tail(s))
             ELSE IF n >= 3 THEN <<" ", " ">> \o CollapseSpaces(SubSeq(s, n + 1, Len(s)))
             ELSE SubSeq(s, 1, n) \o CollapseSpaces(SubSeq(s, n + 1, Len(s)))

RECURSIVE TrimStart(_)
TrimStart(s) == IF s # <<>> /\ IsSpace(Head(s)) THEN TrimStart(Tail(s)) ELSE s

RECURSIVE TrimEnd(_)
TrimEnd(s) ==
    IF s # <<>> /\ IsSpace(s[Len(s)]) THEN TrimEnd(SubSeq(s, 1, Len(s) - 1)) ELSE s

\* String.prototype.trim
Trim(s) == TrimEnd(TrimStart(s))

\* minimalClean: '' for a falsy text, else control characters and BOM removed,
\* runs of three or more blanks cut to two, trimmed
minimalClean(text) ==
    IF text = <<>> THEN <<>>
    ELSE Trim(CollapseSpaces(SelectSeq(text, NotControl)))

-----------------------------------------------------------------------------
(* DecodeSpec: one decode of an attributedBody blob, entered through
   MessageParser.parseAttributedBody or through NSArchiver.decode *)

\* what is handed in as the blob: null, a Buffer of length 0, a Buffer with
\* bytes, a non-Buffer that Buffer.from accepts (an array of bytes), a
\* non-Buffer on which Buffer.from throws (a number, a plain object)
BlobKinds == {"null", "emptyBuffer", "buffer", "array", "object"}

Entries == {"parseAttributedBody", "decode"}

\* the strategies of NSArchiver.decode in the order of its statements
Cascade == <<"bridge", "bplist", "xml", "sequential", "imessage", "readable">>

\* the strategies of NSArchiver.decodeFast
FastCascade == <<"bridge">>

Strategies == { Cascade[i] : i \in 1..Len(Cascade) }

\* what one run of a strategy does: extract a text, find nothing, or throw
StrategyOutcomes ==
    { [kind |-> "text", text |-> t] : t \in RawTexts }
      \cup { [kind |-> "empty", text |-> <<>>], [kind |-> "throw", text |-> <<>>] }

\* results of a decode call
Res(kind, text) == [kind |-> kind, text |-> text]
NoRes      == Res("none", <<>>)
NullRes    == Res("null", <<>>)
RaisedRes  == Res("raised", <<>>)
RichContent == Res("placeholder", <<"[Rich content]">>)

\* the value decode sees from a strategy: a throw of the bridge or of a plist
\* parser is caught by the try block around it, a throw inside sequentialDecoder
\* .decode, extractFromIMessageFormat or extractReadableSequences by the try
\* block of that function; the bridge trims what it read. <<>> is a falsy value
StrategyYield(name, outcome) ==
    IF outcome.kind # "text" THEN <<>>
    ELSE IF name = "bridge" THEN Trim(outcome.text)
    ELSE outcome.text

IndexOf(seq, x) == CHOOSE i \in 1..Len(seq) : seq[i] = x

CascadeOf_slow(entry) == Cascade

\* parseAttributedBody calls nsArchiver.decodeFast
CascadeOf(entry) == IF entry = "decode" THEN Cascade ELSE FastCascade

\* the strategy after name, "none" after the last one
StrategyAfter(entry, name) ==
    LET c == CascadeOf(entry)
        i == IndexOf(c, name)
    IN  IF i < Len(c) THEN c[i + 1] ELSE "none"

\* NSArchiver.decode: the outer catch logs and rethrows
decodeReturn(inner) == inner

parseAttributedBodyReturn_noCatch(inner) ==
    IF inner.kind = "raised" THEN RaisedRes
    ELSE IF inner.kind = "text" /\ inner.text # <<>> THEN inner
    ELSE RichContent

\* parseAttributedBody: return decodedText || '[Rich content]', and the same
\* placeholder from its catch block
parseAttributedBodyReturn(inner) ==
    IF inner.kind = "raised" THEN RichContent
    ELSE IF inner.kind = "text" /\ inner.text # <<>> THEN inner
    ELSE RichContent

ReturnOf(entry, inner) ==
    IF entry = "decode" THEN decodeReturn(inner) ELSE parseAttributedBodyReturn(inner)

\* parseAttributedBody: if (!buffer) return null
parseAttributedBodyGuard(blob) ==
    IF blob = "null" THEN NullRes ELSE NoRes

EmptyGuard_none(blob) == FALSE

\* decode / decodeFast: if (!buffer || buffer.length === 0) return null
EmptyGuard(blob) == blob \in {"null", "emptyBuffer"}

\* Buffer.from(buf) of a non-Buffer: TRUE iff it throws
BufferFromThrows(blob) == blob = "object"

\* the call is entered: the guards and the conversion to a Buffer
DecEnter ==
    /\ dec.pc = "enter"
    /\ LET blob == dec.blob
           guard == IF dec.entry = "parseAttributedBody"
                    THEN parseAttributedBodyGuard(blob) ELSE NoRes
       IN  IF guard # NoRes
           THEN dec' = [dec EXCEPT !.pc = "done", !.out = guard]
           ELSE IF dec.entry = "parseAttributedBody" /\ BufferFromThrows(blob)
           THEN dec' = [dec EXCEPT !.pc = "done",
                                   !.out = parseAttributedBodyReturn(RaisedRes)]
           ELSE IF EmptyGuard(blob)
           THEN dec' = [dec EXCEPT !.pc = "done", !.out = ReturnOf(dec.entry, NullRes)]
           ELSE IF BufferFromThrows(blob)
           THEN dec' = [dec EXCEPT !.pc = "done", !.out = ReturnOf(dec.entry, RaisedRes)]
           ELSE dec' = [dec EXCEPT !.pc = CascadeOf(dec.entry)[1]]
    /\ UNCHANGED <<msgv, batch, bridge>>

\* the strategy at hand runs; a truthy yield is cleaned and returned, otherwise
\* the next strategy is at hand, and null is returned after the last one
DecStrategy ==
    /\ dec.pc \in Strategies
    /\ \E o \in StrategyOutcomes :
        LET yield == StrategyYield(dec.pc, o)
            next  == StrategyAfter(dec.entry, dec.pc)
            tried == Append(dec.tried, [name |-> dec.pc, outcome |-> o.kind,
                                        yield |-> yield])
        IN  IF yield # <<>>
            THEN dec' = [dec EXCEPT !.pc = "done", !.tried = tried, !.from = dec.pc,
                            !.out = ReturnOf(dec.entry, Res("text", minimalClean(yield)))]
            ELSE IF next = "none"
            THEN dec' = [dec EXCEPT !.pc = "done", !.tried = tried,
                            !.out = ReturnOf(dec.entry, NullRes)]
            ELSE dec' = [dec EXCEPT !.pc = next, !.tried = tried]
    /\ UNCHANGED <<msgv, batch, bridge>>

DecodeInit ==
    /\ now = StartNow
    /\ drow = NoRow
    /\ dstatus = "none"
    /\ message = {}
    /\ call = [c \in Calls |-> IdleCall]
    /\ isRead = {}
    /\ op = NoOp
    /\ SrvIdle
    /\ \E entry \in Entries, blob \in BlobKinds :
         dec = [pc |-> "enter", entry |-> entry, blob |-> blob, tried |-> <<>>,
                from |-> "none", out |-> NoRes]
    /\ batch = NoBatch
    /\ bridge = NoBridge

DecodeNext == DecEnter \/ DecStrategy

DecodeSpec == DecodeInit /\ [][DecodeNext]_vars

-----------------------------------------------------------------------------
(* Claims on decoding, checked under DecodeSpec *)

DecReturned == dec.pc = "done"

\* C13: for every blob that is not null (empty, with bytes, a non-Buffer) and
\* every behaviour of the strategies, a decode call returns recovered text or
\* the placeholder and never raises.
C13_DecodeTotal ==
    DecReturned /\ dec.blob # "null" => dec.out.kind \in {"text", "placeholder"}

\* C13 amended: parseAttributedBody never raises; it returns a non-empty text or
\* the placeholder for every blob but null, and null for null.  NSArchiver.decode
\* returns a cleaned text or null, never the placeholder, and raises exactly when
\* the conversion of a non-Buffer to a Buffer throws.
C13_ParseTotalDecodePartial ==
    DecReturned =>
        IF dec.entry = "parseAttributedBody"
        THEN /\ dec.out.kind \in {"text", "placeholder", "null"}
             /\ dec.out.kind = "null" <=> dec.blob = "null"
             /\ dec.out.kind = "text" => dec.out.text # <<>>
             /\ dec.out.kind = "placeholder" => dec.out = RichContent
        ELSE /\ dec.out.kind \in {"text", "null", "raised"}
             /\ dec.out.kind = "raised" <=> dec.blob = "object"

\* parseAttributedBody was handed a non-Buffer that cannot be converted and
\* returned the placeholder; NSArchiver.decode raised on the same input
C13_Witness ==
    /\ DecReturned
    /\ dec.blob = "object"
    /\ dec.entry = "parseAttributedBody"
    /\ dec.out = RichContent

\* C14: decode of a null blob or of a zero-length blob returns the placeholder
\* without a strategy having been invoked.
C14_EmptyIsPlaceholder ==
    DecReturned /\ dec.entry = "parseAttributedBody" /\ dec.blob \in {"null", "emptyBuffer"}
        => dec.out = RichContent /\ dec.tried = <<>>

\* C14 amended: no strategy is invoked for a null or zero-length blob; a
\* zero-length blob gives the placeholder, a null blob gives null (and
\* NSArchiver.decode gives null for both).
C14_EmptyIsPlaceholderNullIsNull ==
    DecReturned /\ dec.blob \in {"null", "emptyBuffer"} =>
        /\ dec.tried = <<>>
        /\ dec.out = IF dec.entry = "parseAttributedBody" /\ dec.blob = "emptyBuffer"
                     THEN RichContent ELSE NullRes

C14_Witness ==
    /\ DecReturned
    /\ dec.entry = "parseAttributedBody"
    /\ dec.blob = "emptyBuffer"
    /\ dec.out = RichContent
    /\ dec.tried = <<>>

\* the strategies tried are the first ones of order, each once, and every one
\* before the last found nothing
TriedInOrder(order) ==
    /\ Len(dec.tried) <= Len(order)
    /\ \A i \in 1..Len(dec.tried) : dec.tried[i].name = order[i]
    /\ \A i \in 1..(Len(dec.tried) - 1) : dec.tried[i].yield = <<>>

LastTried == dec.tried[Len(dec.tried)]

\* C15: a decode of a non-empty blob tries bridge, binary plist, XML plist and
\* the heuristics in that order, each at most once and only after all earlier
\* ones found nothing; it returns the text of the first that finds one, and the
\* placeholder only after all of them found nothing.
C15_FullCascade ==
    DecReturned /\ dec.blob \in {"buffer", "array"} /\ dec.entry = "parseAttributedBody" =>
        /\ TriedInOrder(Cascade)
        /\ dec.out.kind \in {"text", "placeholder"}
        /\ dec.out.kind = "text" => LastTried.yield # <<>>
        /\ dec.out.kind = "placeholder" => Len(dec.tried) = Len(Cascade)

\* C15 amended: NSArchiver.decode runs that cascade and returns the cleaned text
\* of the first strategy that finds one, null after all six found nothing;
\* parseAttributedBody, the one that returns the placeholder, tries the bridge
\* alone, once: when the bridge finds nothing, or a text that is empty once
\* cleaned, the placeholder follows with no other strategy tried.
C15_CascadeOnlyInDecode ==
    DecReturned /\ dec.blob \in {"buffer", "array"} =>
        /\ TriedInOrder(IF dec.entry = "decode" THEN Cascade ELSE <<"bridge">>)
        /\ Len(dec.tried) >= 1
        /\ IF LastTried.yield # <<>>
           THEN /\ dec.from = LastTried.name
                /\ IF dec.entry = "decode" \/ minimalClean(LastTried.yield) # <<>>
                   THEN dec.out = Res("text", minimalClean(LastTried.yield))
                   ELSE dec.out = RichContent
           ELSE /\ dec.from = "none"
                /\ IF dec.entry = "decode"
                   THEN Len(dec.tried) = Len(Cascade) /\ dec.out = NullRes
                   ELSE Len(dec.tried) = 1 /\ dec.out = RichContent

\* the bridge threw and parseAttributedBody returned the placeholder, the bridge
\* being the one strategy tried
C15_Witness ==
    /\ DecReturned
    /\ dec.entry = "parseAttributedBody"
    /\ dec.blob = "buffer"
    /\ dec.tried = <<[name |-> "bridge", outcome |-> "throw", yield |-> <<>>]>>
    /\ dec.out = RichContent

-----------------------------------------------------------------------------
(* BatchSpec: one processMessagesWithAttributedBody call and the batchDecode
   call it makes *)

\* messages handed to one call
MaxBatch == 3

\* shouldDecodeAttributedBody: attributedBody.length < 10
MinDecodeLength == 10

\* the blobs: two the bridge decodes (to a clean text, to a text with a run of
\* blanks), one it cannot decode, one shorter than MinDecodeLength, one whose
\* first four bytes are zero
Blobs == {"B_hi", "B_pad", "B_bad", "B_short", "B_zeros"}

BlobLength(b) == IF b = "B_short" THEN 4 ELSE 12

\* firstBytes.some((byte) => byte > 0)
hasValidPattern(b) == b # "B_zeros"

\* what NSUnarchiver makes of the bytes: attributed.string, <<>> when nil
Unarchived(b) ==
    CASE b = "B_hi"  -> Txt_Hi
      [] b = "B_pad" -> Txt_H3i
      [] OTHER       -> <<>>

shouldDecodeAttributedBody_always(b) == TRUE

shouldDecodeAttributedBody(b) ==
    IF BlobLength(b) < MinDecodeLength THEN FALSE ELSE hasValidPattern(b)

\* the rows handed in: id is the ROWID (Null when the row has none), a row has
\* a text or a blob
MsgIds == {Null, 0, 1, 2}
PlainText == <<"p">>
Msgs == { [id |-> i, text |-> PlainText, blob |-> "none"] : i \in MsgIds }
          \cup { [id |-> i, text |-> <<>>, blob |-> b] : i \in MsgIds, b \in Blobs }

\* ROWIDs are distinct
DistinctIds(ms) ==
    \A i, j \in 1..Len(ms) : i # j /\ Truthy(ms[i].id) => ms[i].id # ms[j].id

\* messages.filter((msg) => !msg.text && msg.attributedBody): the positions kept
ToDecode(ms) == { i \in 1..Len(ms) : ms[i].text = <<>> /\ ms[i].blob # "none" }

\* the index (from 0) of message i in messagesToDecode
FilteredIndex(ms, i) == Cardinality({ j \in ToDecode(ms) : j < i })

\* `msg_${msg.id || index}` with index the position in messagesToDecode
BatchItemId(ms, i) == IF Truthy(ms[i].id) THEN ms[i].id ELSE FilteredIndex(ms, i)

\* `msg_${msg.id || messages.indexOf(msg)}`: the position in messages
LookupId(ms, i) == IF Truthy(ms[i].id) THEN ms[i].id ELSE i - 1

\* the contents processMessagesWithAttributedBody produces
BatchPlaceholder == Res("placeholder", <<"[Media/Sticker - Decoded via Foundation Bridge]">>)
SkippedPlaceholder == Res("placeholder", <<"[Media/Sticker - Skipped decoding]">>)

\* writeFileSync(join(inputDir, `${item.id}.dat`), item.buffer) for the items in
\* order: the blob each file holds in the end
RECURSIVE WriteSlots(_, _, _)
WriteSlots(ms, todo, slots) ==
    IF todo = {} THEN slots
    ELSE LET i == CHOOSE x \in todo : \A y \in todo : x <= y
             k == BatchItemId(ms, i)
         IN  WriteSlots(ms, todo \ {i},
                        [x \in DOMAIN slots \cup {k} |->
                            IF x = k THEN ms[i].blob ELSE slots[x]])

EmptySlots == [x \in {} |-> "none"]

\* decodedResults after the loop over batchResults: the ids with a truthy result
DecodedResults(results) ==
    { k \in DOMAIN results : results[k] # <<>> }

\* the content of message i: messages.map((msg) => ...)
BatchContent(ms, i, results) ==
    IF ms[i].text # <<>> THEN Res("text", ms[i].text)
    ELSE IF ms[i].blob = "none" THEN Res("text", <<>>)
    ELSE IF ~shouldDecodeAttributedBody(ms[i].blob) THEN SkippedPlaceholder
    ELSE IF LookupId(ms, i) \in DecodedResults(results)
         THEN Res("text", results[LookupId(ms, i)])
    ELSE BatchPlaceholder

\* parseAttributedBody of a Buffer with bytes: decodeFast hands the bytes to the
\* bridge, cleans a truthy result, and the placeholder stands in for nothing
parseAttributedBody(b) ==
    LET yield == StrategyYield("bridge",
                     IF Unarchived(b) # <<>> THEN [kind |-> "text", text |-> Unarchived(b)]
                     ELSE [kind |-> "empty", text |-> <<>>])
    IN  IF yield # <<>>
        THEN parseAttributedBodyReturn(Res("text", minimalClean(yield)))
        ELSE parseAttributedBodyReturn(NullRes)

\* processMessagesWithAttributedBody up to the call of batchDecode, and
\* batchDecode up to the call of the Swift script: the input files are written
BatchWrite ==
    /\ batch.pc = "start"
    /\ LET ms == batch.messages
       IN  IF ToDecode(ms) = {}
           THEN batch' = [batch EXCEPT !.pc = "map"]
           ELSE batch' = [batch EXCEPT !.pc = "exec",
                                       !.slots = WriteSlots(ms, ToDecode(ms), EmptySlots)]
    /\ UNCHANGED <<msgv, dec, bridge>>

\* ... a write throws: the outer catch of batchDecode returns a null result
\* for every item
BatchWriteThrows ==
    /\ batch.pc = "start"
    /\ ToDecode(batch.messages) # {}
    /\ batch' = [batch EXCEPT !.pc = "map", !.bridgeFailed = TRUE]
    /\ UNCHANGED <<msgv, dec, bridge>>

\* the Swift script runs over the files of the input directory, in whatever
\* order the directory lists them, and writes one result per file; batchDecode
\* reads them
BatchExec ==
    /\ batch.pc = "exec"
    /\ batch' = [batch EXCEPT !.pc = "map", !.ran = DOMAIN batch.slots,
                     !.results = [k \in DOMAIN batch.slots |-> Unarchived(batch.slots[k])]]
    /\ UNCHANGED <<msgv, dec, bridge>>

\* ... the script fails or times out without an output file, or the output
\* cannot be parsed: a null result for every item
BatchExecFails ==
    /\ batch.pc = "exec"
    /\ batch' = [batch EXCEPT !.pc = "map", !.bridgeFailed = TRUE]
    /\ UNCHANGED <<msgv, dec, bridge>>

\* the results are put in decodedResults and every message gets its content
BatchMap ==
    /\ batch.pc = "map"
    /\ batch' = [batch EXCEPT !.pc = "done",
                     !.contents = [i \in 1..Len(batch.messages) |->
                                     BatchContent(batch.messages, i, batch.results)]]
    /\ UNCHANGED <<msgv, dec, bridge>>

BatchInit ==
    /\ now = StartNow
    /\ drow = NoRow
    /\ dstatus = "none"
    /\ message = {}
    /\ call = [c \in Calls |-> IdleCall]
    /\ isRead = {}
    /\ op = NoOp
    /\ SrvIdle
    /\ dec = NoDec
    /\ \E n \in 1..MaxBatch : \E ms \in [1..n -> Msgs] :
         /\ DistinctIds(ms)
         /\ batch = [pc |-> "start", messages |-> ms, slots |-> EmptySlots,
                     ran |-> {}, results |-> EmptySlots, bridgeFailed |-> FALSE,
                     contents |-> <<>>]
    /\ bridge = NoBridge

BatchNext ==
    \/ BatchWrite
    \/ BatchWriteThrows
    \/ BatchExec
    \/ BatchExecFails
    \/ BatchMap

BatchSpec == BatchInit /\ [][BatchNext]_vars

-----------------------------------------------------------------------------
(* Claims on batch decoding, checked under BatchSpec *)

BatchReturned == batch.pc = "done"

\* message i was given a slot of its own and is looked up under that slot
OwnSlot(ms, i) ==
    /\ LookupId(ms, i) = BatchItemId(ms, i)
    /\ \A j \in ToDecode(ms) : j # i => BatchItemId(ms, j) # BatchItemId(ms, i)

\* what the plist and heuristic fallbacks extract from a blob: the sequential
\* archives the bridge decodes, and readable bytes of one it does not
FallbackText(b) ==
    CASE b = "B_hi"  -> Txt_Hi
      [] b = "B_pad" -> Txt_H3i
      [] b = "B_bad" -> Txt_Hi
      [] OTHER       -> <<>>

\* C16: an item the bridge returned no usable result for is run through the
\* plist and heuristic fallbacks before it is given the placeholder, so an item
\* the fallbacks can read gets their text; the batch as a whole does not fail.
C16_FallbackPerItem ==
    BatchReturned =>
        \A i \in ToDecode(batch.messages) :
            LET b == batch.messages[i].blob
            IN  /\ LookupId(batch.messages, i) \notin DecodedResults(batch.results)
                /\ FallbackText(b) # <<>>
                => batch.contents[i] = Res("text", minimalClean(FallbackText(b)))

\* C16 amended: the batch never fails and returns one content per message; an
\* item with no usable bridge result under its id is given a placeholder at
\* once, no fallback being run; when the whole bridge invocation fails every
\* item is; an item with a slot of its own whose blob passes
\* shouldDecodeAttributedBody keeps its bridge result.
C16_PlaceholderWithoutFallback ==
    BatchReturned =>
        LET ms == batch.messages
        IN  /\ Len(batch.contents) = Len(ms)
            /\ \A i \in 1..Len(ms) : i \notin ToDecode(ms) =>
                   batch.contents[i] = Res("text", ms[i].text)
            /\ \A i \in ToDecode(ms) :
                   LET b == ms[i].blob
                       c == batch.contents[i]
                   IN  IF BlobLength(b) < MinDecodeLength \/ ~hasValidPattern(b)
                       THEN c = SkippedPlaceholder
                       ELSE IF batch.bridgeFailed THEN c = BatchPlaceholder
                       ELSE /\ c = BatchPlaceholder
                               \/ \E j \in ToDecode(ms) :
                                     /\ Unarchived(ms[j].blob) # <<>>
                                     /\ c = Res("text", Unarchived(ms[j].blob))
                            /\ OwnSlot(ms, i) =>
                                 c = IF Unarchived(b) # <<>>
                                     THEN Res("text", Unarchived(b)) ELSE BatchPlaceholder

\* the bridge decoded one item and not another: the first keeps its text, the
\* second, which the fallbacks could read, has the placeholder
C16_Witness ==
    /\ BatchReturned
    /\ ~batch.bridgeFailed
    /\ \E i, j \in ToDecode(batch.messages) :
         /\ batch.messages[i].blob = "B_hi"
         /\ batch.contents[i] = Res("text", Txt_Hi)
         /\ batch.messages[j].blob = "B_bad"
         /\ batch.contents[j] = BatchPlaceholder

\* C17: the content the batch path gives a blob is the content the single-item
\* decode gives it (here for items with a slot of their own, the bridge
\* process having run).
C17_BatchEqualsSingle ==
    BatchReturned /\ ~batch.bridgeFailed =>
        \A i \in ToDecode(batch.messages) :
            OwnSlot(batch.messages, i) =>
                batch.contents[i] = parseAttributedBody(batch.messages[i].blob)

\* C18: every item of a batch is written to a slot of its own, and the text
\* attached to a message is the decode of its own blob, whatever ids the
\* messages carry.
C18_OwnSlotOwnResult ==
    /\ batch.pc = "exec" =>
         Cardinality(DOMAIN batch.slots) = Cardinality(ToDecode(batch.messages))
    /\ BatchReturned =>
         \A i \in ToDecode(batch.messages) :
             batch.contents[i].kind = "text" =>
                 batch.contents[i].text = Unarchived(batch.messages[i].blob)

-----------------------------------------------------------------------------
(* BridgeSpec: FoundationBridge.decode and FoundationBridge.batchDecode calls,
   one after the other, and the files they leave in the temp directory *)

\* bridge calls made
MaxBridgeCalls == 3

\* the blobs handed to the bridge: two NSUnarchiver decodes, one it does not
BridgeBlobs == {"B_hi", "B_pad", "B_bad"}

\* the batches handed to batchDecode: items by the number in their id
BatchIds == {1, 2}
BatchItems ==
    { [k \in {1} |-> "B_hi"], [k \in {1} |-> "B_bad"],
      [k \in BatchIds |-> IF k = 1 THEN "B_hi" ELSE "B_bad"] }

\* names in the temp directory: <<kind, Date.now(), item>>, item 0 for files
\* that belong to no item
\* `nsarchiver_input_${Date.now()}.dat`, `nsarchiver_output_${Date.now()}.txt`,
\* `nsarchiver_script_${Date.now()}.swift`
inputFile(t)  == <<"nsarchiver_input", t, 0>>
outputFile(t) == <<"nsarchiver_output", t, 0>>
scriptFile(t) == <<"nsarchiver_script", t, 0>>
\* `batch_${batchId}`, `batch_output_${batchId}.json`, `batch_script_${batchId}.swift`,
\* `${item.id}.dat` inside the input directory
inputDir(t)        == <<"batch", t, 0>>
batchOutputFile(t) == <<"batch_output", t, 0>>
batchScriptFile(t) == <<"batch_script", t, 0>>
slotFile(t, k)     == <<"batch", t, k>>

\* what a file holds: the blob of an input file, the text of an output file,
\* the results of a batch output file
FileOf(blob, text, results) == [blob |-> blob, text |-> text, results |-> results]
NoResults == <<>>

\* the files without those of names
Without(files, names) == [f \in DOMAIN files \ names |-> files[f]]

\* the files with name holding data
WithFile(files, name, data) ==
    [f \in DOMAIN files \cup {name} |-> IF f = name THEN data ELSE files[f]]

\* the oldest input file of the temp directory
ScriptInput_oldest(files, t) ==
    LET inputs == { f \in DOMAIN files : f[1] = "nsarchiver_input" }
    IN  (CHOOSE f \in inputs : \A g \in inputs : f[2] <= g[2])

\* NSData(contentsOfFile: "${inputFile}"): the file the script reads
ScriptInput(files, t) == inputFile(t)

\* NSArchiver.decode around the bridge: a truthy bridge result is cleaned and
\* returned, else the strategies after it work on the same bytes
decodeOf(b, bridgeResult) ==
    IF bridgeResult # <<>> THEN Res("text", minimalClean(bridgeResult))
    ELSE IF FallbackText(b) # <<>> THEN Res("text", minimalClean(FallbackText(b)))
    ELSE NullRes

NoBridgeCall ==
    [kind |-> "none", pc |-> "idle", blob |-> "none", items |-> <<>>, t |-> 0,
     created |-> {}, delFailed |-> {}, disturbed |-> FALSE,
     result |-> NoRes, results |-> NoResults]

\* decode(buffer) is called with a Buffer with bytes; the three names are made
BrDecodeCall ==
    /\ bridge.call.pc = "idle"
    /\ bridge.calls < MaxBridgeCalls
    /\ \E b \in BridgeBlobs :
         bridge' = [bridge EXCEPT
             !.calls = @ + 1,
             !.call = [NoBridgeCall EXCEPT !.kind = "decode", !.pc = "write",
                                           !.blob = b, !.t = bridge.clock]]
    /\ UNCHANGED <<msgv, dec, batch>>

\* writeFileSync(inputFile, buf); writeFileSync(scriptFile, swiftScript): both
\* succeed, or the second throws
BrDecodeWrite ==
    /\ bridge.call.kind = "decode"
    /\ bridge.call.pc = "write"
    /\ LET t  == bridge.call.t
           f1 == WithFile(bridge.files, inputFile(t), FileOf(bridge.call.blob, <<>>, NoResults))
           f2 == WithFile(f1, scriptFile(t), FileOf("none", <<>>, NoResults))
       IN  \/ bridge' = [bridge EXCEPT !.files = f2, !.call.pc = "exec",
                             !.call.created = {inputFile(t), scriptFile(t)}]
           \/ bridge' = [bridge EXCEPT !.files = f1, !.call.pc = "catch",
                             !.call.disturbed = TRUE,
                             !.call.created = {inputFile(t)}]
    /\ UNCHANGED <<msgv, dec, batch>>

\* execSync(`swift "${scriptFile}"`, { timeout: 10000 }): the script reads its
\* input file; it writes the output file and exits 0 when NSUnarchiver decodes
\* the bytes, exits 1 when it does not; or the process fails or is killed at
\* the timeout, after or before the output file was written
BrDecodeExec ==
    /\ bridge.call.kind = "decode"
    /\ bridge.call.pc = "exec"
    /\ LET t    == bridge.call.t
           text == Unarchived(bridge.files[ScriptInput(bridge.files, t)].blob)
           out  == WithFile(bridge.files, outputFile(t), FileOf("none", text, NoResults))
       IN  \/ /\ text # <<>>
              /\ bridge' = [bridge EXCEPT !.clock = @ + 1, !.files = out,
                                !.call.pc = "read",
                                !.call.created = @ \cup {outputFile(t)}]
           \/ /\ text = <<>>
              /\ bridge' = [bridge EXCEPT !.clock = @ + 1, !.call.pc = "catch"]
           \/ /\ text # <<>>
              /\ bridge' = [bridge EXCEPT !.clock = @ + 1, !.files = out,
                                !.call.pc = "catch", !.call.disturbed = TRUE,
                                !.call.created = @ \cup {outputFile(t)}]
           \/ bridge' = [bridge EXCEPT !.clock = @ + 1, !.call.pc = "catch",
                             !.call.disturbed = TRUE]
    /\ UNCHANGED <<msgv, dec, batch>>

\* cleanup(list): every file of the list that exists is unlinked, a throw of
\* unlinkSync is caught and leaves the file; failed are the files it throws on
\* (the calls below let it throw on one file of the list or on none)
Cleanup(br, list, failed) ==
    [br EXCEPT !.files = Without(br.files, list \ failed),
               !.call.delFailed = @ \cup failed]

\* the output file exists: it is read and trimmed, all three files are
\* cleaned up, the text or null is returned
BrDecodeRead ==
    /\ bridge.call.kind = "decode"
    /\ bridge.call.pc = "read"
    /\ LET t == bridge.call.t
           list == {inputFile(t), outputFile(t), scriptFile(t)}
           result == Trim(bridge.files[outputFile(t)].text)
       IN  \E failed \in {{}, {inputFile(t)}} :
             bridge' = [Cleanup(bridge, list, failed) EXCEPT
                           !.call.pc = "done",
                           !.call.result = decodeOf(bridge.call.blob, result)]
    /\ UNCHANGED <<msgv, dec, batch>>

\* the catch block of the inner try names scriptFile, a const of the try block:
\* evaluating cleanup's argument throws a ReferenceError, which the outer catch
\* turns into return null; TRUE iff the catch block cleans up
DecodeCatchCleans == FALSE

\* catch (error): nothing is cleaned up and null is returned
BrDecodeCatch ==
    /\ bridge.call.kind = "decode"
    /\ bridge.call.pc = "catch"
    /\ LET t == bridge.call.t
           list == IF DecodeCatchCleans
                   THEN {inputFile(t), outputFile(t), scriptFile(t)} ELSE {}
       IN  \E failed \in SUBSET (list \cap DOMAIN bridge.files) :
             bridge' = [Cleanup(bridge, list, failed) EXCEPT
                           !.call.pc = "done",
                           !.call.result = decodeOf(bridge.call.blob, <<>>)]
    /\ UNCHANGED <<msgv, dec, batch>>

\* batchDecode(items) is called with a non-empty list; batchId = Date.now()
BrBatchCall ==
    /\ bridge.call.pc = "idle"
    /\ bridge.calls < MaxBridgeCalls
    /\ \E items \in BatchItems :
         bridge' = [bridge EXCEPT
             !.calls = @ + 1,
             !.call = [NoBridgeCall EXCEPT !.kind = "batchDecode", !.pc = "write",
                                           !.items = items, !.t = bridge.clock]]
    /\ UNCHANGED <<msgv, dec, batch>>

\* mkdirSync(inputDir), writeFileSync of every input file and of the script:
\* all succeed, or the write of the first input file throws, or that of the
\* script does
BrBatchWrite ==
    /\ bridge.call.kind = "batchDecode"
    /\ bridge.call.pc = "write"
    /\ LET t == bridge.call.t
           items == bridge.call.items
           dir == WithFile(bridge.files, inputDir(t), FileOf("none", <<>>, NoResults))
           slots(ids) == [f \in DOMAIN dir \cup { slotFile(t, k) : k \in ids } |->
                            IF \E k \in ids : f = slotFile(t, k)
                            THEN FileOf(items[f[3]], <<>>, NoResults) ELSE dir[f]]
       IN  \/ bridge' = [bridge EXCEPT
                  !.files = WithFile(slots(DOMAIN items), batchScriptFile(t),
                                     FileOf("none", <<>>, NoResults)),
                  !.call.pc = "exec",
                  !.call.created = {inputDir(t), batchScriptFile(t)}
                                     \cup { slotFile(t, k) : k \in DOMAIN items }]
           \/ \E ids \in {{}, DOMAIN items} :
                bridge' = [bridge EXCEPT
                  !.files = slots(ids),
                  !.call.pc = "catch",
                  !.call.disturbed = TRUE,
                  !.call.created = {inputDir(t)} \cup { slotFile(t, k) : k \in ids }]
    /\ UNCHANGED <<msgv, dec, batch>>

\* the results the batch script writes: one per .dat file of the input directory
BatchScriptResults(files, t) ==
    LET ids == { f[3] : f \in { g \in DOMAIN files :
                                    g[1] = "batch" /\ g[2] = t /\ g[3] # 0 } }
    IN  [k \in ids |-> Unarchived(files[slotFile(t, k)].blob)]

\* execSync of the batch script (timeout: 30000): it writes the output file; or
\* it fails with no output file, which is rethrown to the outer catch
BrBatchExec ==
    /\ bridge.call.kind = "batchDecode"
    /\ bridge.call.pc = "exec"
    /\ LET t == bridge.call.t
           out == WithFile(bridge.files, batchOutputFile(t),
                           FileOf("none", <<>>, BatchScriptResults(bridge.files, t)))
       IN  \/ bridge' = [bridge EXCEPT !.clock = @ + 1, !.files = out,
                             !.call.pc = "read",
                             !.call.created = @ \cup {batchOutputFile(t)}]
           \/ bridge' = [bridge EXCEPT !.clock = @ + 1, !.call.pc = "catch",
                             !.call.disturbed = TRUE]
    /\ UNCHANGED <<msgv, dec, batch>>

\* the output file is read and parsed; the output, the script and the input
\* files are cleaned up; rmSync(inputDir) is reached through require('fs'),
\* which the module may or may not have: without it the try block around it
\* swallows the ReferenceError and the directory stays
BrBatchRead ==
    /\ bridge.call.kind = "batchDecode"
    /\ bridge.call.pc = "read"
    /\ LET t == bridge.call.t
           slots == { slotFile(t, k) : k \in DOMAIN bridge.call.items }
       IN  \E requireDefined \in BOOLEAN :
             LET list == {batchOutputFile(t), batchScriptFile(t)} \cup slots
                            \cup (IF requireDefined THEN {inputDir(t)} ELSE {})
             IN  \E failed \in {{}, {batchScriptFile(t)}} :
                   bridge' = [Cleanup(bridge, list, failed) EXCEPT
                                 !.call.pc = "done",
                                 !.call.results = bridge.files[batchOutputFile(t)].results]
    /\ UNCHANGED <<msgv, dec, batch>>

\* the outer catch of batchDecode: a null result for every item, no cleanup
BrBatchCatch ==
    /\ bridge.call.kind = "batchDecode"
    /\ bridge.call.pc = "catch"
    /\ bridge' = [bridge EXCEPT
           !.call.pc = "done",
           !.call.results = [k \in DOMAIN bridge.call.items |-> <<>>]]
    /\ UNCHANGED <<msgv, dec, batch>>

\* the caller has the result; first keeps, per blob, what the first decode
\* call that no failure of the environment disturbed returned
BrReturn ==
    /\ bridge.call.pc = "done"
    /\ bridge' = [bridge EXCEPT
           !.call = NoBridgeCall,
           !.first = IF bridge.call.kind = "decode" /\ ~bridge.call.disturbed
                        /\ @[bridge.call.blob] = NoRes
                     THEN [@ EXCEPT ![bridge.call.blob] = bridge.call.result]
                     ELSE @]
    /\ UNCHANGED <<msgv, dec, batch>>

BridgeInit ==
    /\ now = StartNow
    /\ drow = NoRow
    /\ dstatus = "none"
    /\ message = {}
    /\ call = [c \in Calls |-> IdleCall]
    /\ isRead = {}
    /\ op = NoOp
    /\ SrvIdle
    /\ dec = NoDec
    /\ batch = NoBatch
    /\ bridge = [pc |-> "run", clock |-> 0, calls |-> 0, files |-> <<>>,
                 call |-> NoBridgeCall, first |-> [b \in BridgeBlobs |-> NoRes]]

BridgeNext ==
    \/ BrDecodeCall
    \/ BrDecodeWrite
    \/ BrDecodeExec
    \/ BrDecodeRead
    \/ BrDecodeCatch
    \/ BrBatchCall
    \/ BrBatchWrite
    \/ BrBatchExec
    \/ BrBatchRead
    \/ BrBatchCatch
    \/ BrReturn

BridgeSpec == BridgeInit /\ [][BridgeNext]_vars

-----------------------------------------------------------------------------
(* Claims on the bridge, checked under BridgeSpec *)

BridgeReturned == bridge.call.pc = "done"

\* C19: when a decode or batchDecode call returns, on whatever path, every
\* temp file and directory it created is gone, unless unlinking it failed.
C19_TempFilesCleaned ==
    BridgeReturned =>
        \A f \in bridge.call.created :
            f \notin DOMAIN bridge.files \/ f \in bridge.call.delFailed

\* C20: a decode call that no failure of the environment disturbed returns
\* what the first such call on the same blob returned, whatever calls were
\* made in between and whatever they left in the temp directory.
C20_DecodePure ==
    /\ bridge.call.kind = "decode"
    /\ BridgeReturned
    /\ ~bridge.call.disturbed
    /\ bridge.first[bridge.call.blob] # NoRes
    => bridge.call.result = bridge.first[bridge.call.blob]

\* a second decode of the blob returned the text of the first, with an input
\* file of another call still in the temp directory
C20_Witness ==
    /\ bridge.call.kind = "decode"
    /\ BridgeReturned
    /\ ~bridge.call.disturbed
    /\ bridge.call.blob = "B_hi"
    /\ bridge.first["B_hi"] = Res("text", Txt_Hi)
    /\ bridge.call.result = Res("text", Txt_Hi)
    /\ \E f \in DOMAIN bridge.files :
         /\ f[1] = "nsarchiver_input"
         /\ f[2] # bridge.call.t
         /\ bridge.files[f].blob = "B_bad"


-----------------------------------------------------------------------------
(* Claims on the verification loop, checked under LiveSpec and Spec *)

\* C23: after a successful send action the verification loop performs at
\* most `attempts` store polls, polls no more once a poll has returned a
\* record, goes on to the next pass after a poll that threw, and always
\* ends: the call returns, whether or not a record appears and whether or
\* not polls throw.
C23_BoundedLoop ==
    /\ [](\A c \in Calls :
            /\ call[c].polls <= attempts
            /\ call[c].i <= attempts
            /\ call[c].pc \in {"poll", "sleep"} =>
                 /\ call[c].latest = NoRow
                 /\ call[c].polls = call[c].i + (IF call[c].pc = "sleep" THEN 1 ELSE 0))
    /\ (call[1].pc = "poll") ~> Returned(1)

\* the loop ran all its passes without a record, one poll at least having
\* run after the row was written (so it threw), and the call returned
C23_Witness ==
    /\ Returned(1)
    /\ call[1].polls = attempts
    /\ call[1].latest = NoRow
    /\ call[1].wrote

\* the handles that carry the id of the handle the recipient resolves to
ResolvedHandleIds(to) ==
    { g.handle_id : g \in HandlesMatching(findHandleForRecipient(to).id) }

\* C24 (as stated): whenever some candidate form of the recipient matches a
\* row of the handle table, also when the recipient as given matches none,
\* a verification poll searches the outbound records of the resolved handle
\* and returns its newest outbound record (greatest date among the rows
\* with is_from_me = 1 and a body).
C24_PollsResolvedHandle ==
    \A c \in Calls :
        (call[c].pc = "poll" /\ ~Unresolved(call[c].to)) =>
            getLastOutboundMessageForRecipient(call[c].to, 0) =
                { QueryRow(m) :
                    m \in NewestByDate(OutboundRowsFor(ResolvedHandleIds(call[c].to), 0)) }

-----------------------------------------------------------------------------
(* ServerSpec: the entry points of the server that reach                   *)
(* messageService.sendMessage: the message routes behind                   *)
(* authenticateApiKey, and the socket events of io.on('connection')        *)

\* APP_CONFIG.API_KEY
API_KEY == "key"

\* req.headers['x-api-key']: no header, an empty one, another key, the key
NoHeader == "undefined"
KeyHeaders == {NoHeader, "", "other", API_KEY}

\* !apiKey
HeaderMissing(apiKey) == apiKey \in {NoHeader, ""}

\* the message routes under study
MessageRoutes == {"POST /send", "GET /logs"}

\* validateMessage: max 1000 characters
MaxBodyLength == 1000

\* req.body: whether `to` is truthy, and body.length (0: no body)
BodyLengths == {0, 5, MaxBodyLength + 1}

\* validateMessage({ to, body }).isValid
validateMessage(to, bodyLength) ==
    /\ to
    /\ bodyLength # 0
    /\ ~(bodyLength > MaxBodyLength)

\* requests and socket events the model serves in all
MaxRequests == 2

\* the socket events of io.on('connection') that carry a command or a message
SocketEvents == {"device:send_command", "fe:send_command", "fe:send_message"}

\* commands of SocketCommandHandler under study, and one it does not know
Commands == {"send_message", "ping", "unknown"}

NoRequest == [pc |-> "none"]
NoEvent == [pc |-> "none"]

\* one invocation of messageService.sendMessage: who asked, with what key
SendRecord(origin, key) == [origin |-> origin, key |-> key]

\* a request arrives at /api/<route>
HttpRequest ==
    /\ http.pc = "run"
    /\ http.req.pc \in {"none", "done"}
    /\ http.served < MaxRequests
    /\ \E route \in MessageRoutes, key \in KeyHeaders, to \in BOOLEAN,
          len \in BodyLengths :
         http' = [http EXCEPT
                    !.served = @ + 1,
                    !.req = [pc |-> "auth", route |-> route, key |-> key,
                             to |-> to, bodyLength |-> len,
                             responses |-> <<>>, handlerRan |-> FALSE,
                             sends |-> 0, result |-> "none",
                             destroyed |-> FALSE, unhandled |-> FALSE]]
    /\ UNCHANGED <<corev, mon, sock, overlap>>

\* router.use(authenticateApiKey)
authenticateApiKey ==
    /\ http.pc = "run"
    /\ http.req.pc = "auth"
    /\ http' =
         IF HeaderMissing(http.req.key)
         THEN [http EXCEPT !.req.responses = Append(@, 401), !.req.pc = "done"]
         ELSE IF http.req.key # API_KEY
         THEN [http EXCEPT !.req.responses = Append(@, 403), !.req.pc = "done"]
         ELSE [http EXCEPT !.req.pc = "route"]
    /\ UNCHANGED <<corev, mon, sock, overlap>>

\* what asyncHandler(fn)(req, res) returns to its caller
AsyncHandlerReturns == "undefined"

\* router.post('/send', ...): the controller runs up to its first await, the
\* wrapper built by asyncHandler returns, and the route calls .catch on what
\* it got; a TypeError raised there goes to errorHandler, which answers 500
\* unless a response was written already (then the connection is destroyed)
PostSend ==
    /\ http.pc = "run"
    /\ http.req.pc = "route"
    /\ http.req.route = "POST /send"
    /\ LET valid == validateMessage(http.req.to, http.req.bodyLength)
           written == IF valid THEN <<>> ELSE <<400>>
           typeError == AsyncHandlerReturns = "undefined"
           final == IF typeError /\ written = <<>> THEN <<500>> ELSE written
       IN  http' = [http EXCEPT
                      !.req.handlerRan = TRUE,
                      !.req.responses = final,
                      !.req.destroyed = typeError /\ written # <<>>,
                      !.req.sends = IF valid THEN 1 ELSE 0,
                      !.req.pc = IF valid THEN "sending" ELSE "done",
                      !.sends = IF valid
                                THEN Append(@, SendRecord("POST /send", http.req.key))
                                ELSE @]
    /\ UNCHANGED <<corev, mon, sock, overlap>>

\* the awaited messageService.sendMessage settles and the controller answers
\* with its result; a response written meanwhile makes res.json throw, and
\* the rejection has no handler (the route passed no `next`)
PostSendSettles ==
    /\ http.pc = "run"
    /\ http.req.pc = "sending"
    /\ \E success \in BOOLEAN :
         LET status == IF success THEN 200 ELSE 500
             sent == http.req.responses # <<>>
         IN  http' = [http EXCEPT
                        !.req.result = IF success THEN "ok" ELSE "fail",
                        !.req.responses = IF sent THEN @ ELSE Append(@, status),
                        !.req.unhandled = sent,
                        !.req.pc = "done"]
    /\ UNCHANGED <<corev, mon, sock, overlap>>

\* router.get('/logs', messageController.getLogs)
GetLogs ==
    /\ http.pc = "run"
    /\ http.req.pc = "route"
    /\ http.req.route = "GET /logs"
    /\ \E status \in {200, 500} :
         http' = [http EXCEPT !.req.handlerRan = TRUE,
                              !.req.responses = Append(@, status),
                              !.req.pc = "done"]
    /\ UNCHANGED <<corev, mon, sock, overlap>>

\* handleSendMessage: Recipient and content are required
\* fe:send_message: message.to read inside the try
EventSends(event, command, hasData) ==
    IF event = "fe:send_message"
    THEN hasData
    ELSE command = "send_message" /\ hasData

\* a socket event arrives from a connected client and its handler runs up
\* to the awaited messageService.sendMessage, or to its end
SocketEvent ==
    /\ http.pc = "run"
    /\ http.event.pc \in {"none", "done"}
    /\ http.served < MaxRequests
    /\ \E event \in SocketEvents, command \in Commands, hasData \in BOOLEAN :
         LET sends == EventSends(event, command, hasData)
         IN  http' = [http EXCEPT
                        !.served = @ + 1,
                        !.event = [pc |-> IF sends THEN "sending" ELSE "done",
                                   event |-> event,
                                   command |-> IF event = "fe:send_message"
                                               THEN "none" ELSE command,
                                   emitted |-> IF sends THEN 0 ELSE 1,
                                   success |-> FALSE],
                        !.sends = IF sends
                                  THEN Append(@, SendRecord(event, NoHeader))
                                  ELSE @]
    /\ UNCHANGED <<corev, mon, sock, overlap>>

\* the awaited send settles: fe:message_sent or the command response is emitted
SocketEventSettles ==
    /\ http.pc = "run"
    /\ http.event.pc = "sending"
    /\ \E success \in BOOLEAN :
         http' = [http EXCEPT !.event.pc = "done",
                              !.event.emitted = 1,
                              !.event.success = success]
    /\ UNCHANGED <<corev, mon, sock, overlap>>

ServerInit ==
    /\ now = StartNow
    /\ drow = NoRow
    /\ dstatus = "none"
    /\ message = {}
    /\ call = [c \in Calls |-> IdleCall]
    /\ isRead = {}
    /\ op = NoOp
    /\ dec = NoDec
    /\ batch = NoBatch
    /\ bridge = NoBridge
    /\ http = [pc |-> "run", served |-> 0, req |-> NoRequest,
               event |-> NoEvent, sends |-> <<>>]
    /\ mon = NoMon
    /\ sock = NoSock
    /\ overlap = NoOverlap

ServerNext ==
    \/ HttpRequest
    \/ authenticateApiKey
    \/ PostSend
    \/ PostSendSettles
    \/ GetLogs
    \/ SocketEvent
    \/ SocketEventSettles

ServerSpec == ServerInit /\ [][ServerNext]_vars

-----------------------------------------------------------------------------
(* Claims on the entry points, checked under ServerSpec *)

\* C21 (as stated): the send action is invoked only for a client that
\* presented the configured API key: every invocation of
\* messageService.sendMessage, from a route or from a socket event, was
\* asked with the key; a request without the key is answered 401 or 403
\* and its route handler does not run.
C21_SendOnlyWithKey ==
    /\ \A i \in DOMAIN http.sends : http.sends[i].key = API_KEY
    /\ (http.req.pc = "done" /\ http.req.key # API_KEY) =>
         /\ ~http.req.handlerRan
         /\ http.req.responses =
              <<IF HeaderMissing(http.req.key) THEN 401 ELSE 403>>

\* C22 (as stated): an authenticated POST /api/send with a valid payload
\* has no response written while its sendMessage call is in progress, and
\* once the call has completed it has exactly one response, 200 when
\* result.success and 500 otherwise; an invalid payload gets exactly one
\* 400 and no send.
C22_ResponseCarriesResult ==
    (http.req.pc \in {"sending", "done"} /\ http.req.route = "POST /send"
     /\ http.req.key = API_KEY) =>
        IF validateMessage(http.req.to, http.req.bodyLength)
        THEN /\ http.req.sends = 1
             /\ http.req.pc = "sending" => http.req.responses = <<>>
             /\ http.req.pc = "done" =>
                  http.req.responses =
                      <<IF http.req.result = "ok" THEN 200 ELSE 500>>
        ELSE /\ http.req.sends = 0
             /\ http.req.responses = <<400>>


-----------------------------------------------------------------------------
(* MonitorSpec: initialize, startMonitoring, stopMonitoring and the        *)
(* checkNewMessages invocations they set off, over a store that receives   *)
(* rows                                                                    *)

\* rows the Messages application inserts after construction
MaxInserts == 3

\* checkNewMessages invocations begun in all, startMonitoring and
\* stopMonitoring calls in all, delayed checks scheduled at once
MaxChecks == 3
MaxToggles == 3
MaxDelayed == 1

\* the checkNewMessages invocations that may be in progress at once
Invocations == {1, 2}

\* the dates (minutes since 2001-01-01) an inserted row may carry
InsertDates == {DateBase + 1, DateBase + 2}

IdleInvocation == [pc |-> "idle", batch |-> <<>>]

MonRowIds == 1..MaxInserts

RowWithId(id) == CHOOSE m \in message : m.rowid = id

\* WHERE m.ROWID > ? ORDER BY m.date DESC: the orders the rows may come in
NewMessagesByDateDesc(lastMessageId) ==
    LET ids == { m.rowid : m \in { x \in message : x.rowid > lastMessageId } }
        n == Cardinality(ids)
    IN  { q \in [1..n -> ids] :
            /\ \A a, b \in 1..n : a # b => q[a] # q[b]
            /\ \A a, b \in 1..n :
                 a < b => RowWithId(q[a]).date >= RowWithId(q[b]).date }

\* Math.max(a, b)
MathMax(a, b) == IF a >= b THEN a ELSE b

\* an invocation slot that is free
FreeSlot(k) == mon.inv[k].pc = "idle"

CanBegin == mon.checks < MaxChecks /\ \E k \in Invocations : FreeSlot(k)

\* this.checkNewMessages(onNewMessage) is called: the invocation runs up to
\* `await getDatabase()`
BeginCheck(m) ==
    LET k == CHOOSE j \in Invocations : m.inv[j].pc = "idle"
    IN  [m EXCEPT !.inv[k] = [pc |-> "query", batch |-> <<>>],
                  !.checks = @ + 1,
                  !.beganStopped = @ \/ ~m.isMonitoring]

\* initialize(): lastMessageId = MAX(ROWID) of the message table, or 0
Initialize ==
    /\ mon.pc = "constructed"
    /\ mon' = [mon EXCEPT !.pc = "ready",
                          !.lastMessageId = MaxRowId,
                          !.atInit = MaxRowId]
    /\ UNCHANGED <<corev, http, sock, overlap>>

\* the Messages application inserts a row
StoreInsert ==
    /\ mon.pc \in {"constructed", "ready"}
    /\ Cardinality(message) < MaxInserts
    /\ \E date \in InsertDates :
         message' = message \cup
            { MkRow(MaxRowId + 1, 1, date, 0,
                    [is_sent |-> 0, is_delivered |-> 1, is_finished |-> 1,
                     error |-> 0, date_delivered |-> 0]) }
    /\ UNCHANGED <<now, drow, dstatus, call, ext>>

\* startMonitoring(onNewMessage)
StartMonitoring ==
    /\ mon.pc = "ready"
    /\ mon.toggles < MaxToggles
    /\ IF mon.isMonitoring
       THEN mon' = [mon EXCEPT !.toggles = @ + 1]
       ELSE /\ CanBegin
            /\ mon' = [BeginCheck([mon EXCEPT !.isMonitoring = TRUE])
                         EXCEPT !.toggles = @ + 1,
                                !.watchers = @ + 1,
                                !.timers = @ + 1,
                                !.pollInterval = TRUE]
    /\ UNCHANGED <<corev, http, sock, overlap>>

\* stopMonitoring()
StopMonitoring ==
    /\ mon.pc = "ready"
    /\ mon.toggles < MaxToggles
    /\ mon' = [mon EXCEPT !.toggles = @ + 1,
                          !.timers = IF mon.pollInterval THEN @ - 1 ELSE @,
                          !.pollInterval = FALSE,
                          !.isMonitoring = FALSE]
    /\ UNCHANGED <<corev, http, sock, overlap>>

\* the callback of watch(DB_CONFIG.filename, ...) runs on a 'change' event:
\* setTimeout(() => this.checkNewMessages(onNewMessage), 1000)
WatchEvent ==
    /\ mon.pc = "ready"
    /\ mon.watchers > 0
    /\ mon.delayed < MaxDelayed
    /\ mon' = [mon EXCEPT !.delayed = @ + 1]
    /\ UNCHANGED <<corev, http, sock, overlap>>

\* the timer of a delayed check expires
DelayedCheck ==
    /\ mon.pc = "ready"
    /\ mon.delayed > 0
    /\ CanBegin
    /\ mon' = [BeginCheck(mon) EXCEPT !.delayed = @ - 1]
    /\ UNCHANGED <<corev, http, sock, overlap>>

\* the interval timer fires: setInterval(..., 3000)
PollTick ==
    /\ mon.pc = "ready"
    /\ mon.timers > 0
    /\ CanBegin
    /\ mon' = BeginCheck(mon)
    /\ UNCHANGED <<corev, http, sock, overlap>>

\* checkNewMessages: db.all(..., [this.lastMessageId]) returns its rows
CheckQuery(k) ==
    /\ mon.inv[k].pc = "query"
    /\ \E q \in NewMessagesByDateDesc(mon.lastMessageId) :
         mon' = [mon EXCEPT !.inv[k] = IF q = <<>> THEN IdleInvocation
                                       ELSE [pc |-> "rows", batch |-> q]]
    /\ UNCHANGED <<corev, http, sock, overlap>>

\* ... or the query throws: the catch block logs and the invocation ends
CheckQueryThrows(k) ==
    /\ mon.inv[k].pc = "query"
    /\ mon' = [mon EXCEPT !.inv[k] = IdleInvocation]
    /\ UNCHANGED <<corev, http, sock, overlap>>

\* one pass of `for (const msg of messages)`: parseMessage, logReceivedMessage,
\* onNewMessage(parsedMessage), lastMessageId = Math.max(lastMessageId, msg.ROWID);
\* a callback that throws ends the invocation in the catch block
CheckRow(k) ==
    /\ mon.inv[k].pc = "rows"
    /\ \E callbackThrows \in BOOLEAN :
         LET id == Head(mon.inv[k].batch)
             rest == Tail(mon.inv[k].batch)
         IN  mon' = [mon EXCEPT
                       !.delivered[id] = IF @ < 2 THEN @ + 1 ELSE @,
                       !.lastMessageId = IF callbackThrows THEN @
                                         ELSE MathMax(@, id),
                       !.inv[k] = IF callbackThrows \/ rest = <<>>
                                  THEN IdleInvocation
                                  ELSE [pc |-> "rows", batch |-> rest]]
    /\ UNCHANGED <<corev, http, sock, overlap>>

MonitorInit ==
    /\ now = StartNow
    /\ drow = NoRow
    /\ dstatus = "none"
    /\ message = {}
    /\ call = [c \in Calls |-> IdleCall]
    /\ isRead = {}
    /\ op = NoOp
    /\ dec = NoDec
    /\ batch = NoBatch
    /\ bridge = NoBridge
    /\ http = NoHttp
    /\ mon = [pc |-> "constructed", lastMessageId |-> 0, atInit |-> 0,
              isMonitoring |-> FALSE, pollInterval |-> FALSE,
              timers |-> 0, watchers |-> 0, delayed |-> 0,
              inv |-> [k \in Invocations |-> IdleInvocation],
              checks |-> 0, toggles |-> 0,
              delivered |-> [r \in MonRowIds |-> 0],
              beganStopped |-> FALSE]
    /\ sock = NoSock
    /\ overlap = NoOverlap

MonitorNext ==
    \/ Initialize
    \/ StoreInsert
    \/ StartMonitoring
    \/ StopMonitoring
    \/ WatchEvent
    \/ DelayedCheck
    \/ PollTick
    \/ \E k \in Invocations :
         \/ CheckQuery(k)
         \/ CheckQueryThrows(k)
         \/ CheckRow(k)

MonitorSpec == MonitorInit /\ [][MonitorNext]_vars

-----------------------------------------------------------------------------
(* Claims on the monitor, checked under MonitorSpec *)

\* C25 (as stated): across any interleaving of checkNewMessages invocations
\* (initial check, poll timer, delayed checks of the file watcher) each
\* store row is passed to the onNewMessage callback at most once.
C25_AtMostOnce ==
    \A r \in MonRowIds : mon.delivered[r] <= 1

\* no checkNewMessages invocation is in progress
MonitorQuiet == \A k \in Invocations : mon.inv[k].pc = "idle"

\* C26 (as stated): whenever no checkNewMessages invocation is in progress,
\* every row inserted after initialization whose ROWID is <= lastMessageId
\* has been passed to onNewMessage, also when the callback threw for some
\* row of a batch; lastMessageId is never below its value at initialization.
C26_NoRowSkipped ==
    (mon.pc = "ready" /\ MonitorQuiet) =>
        /\ mon.lastMessageId >= mon.atInit
        /\ \A m \in message :
             (m.rowid > mon.atInit /\ m.rowid <= mon.lastMessageId) =>
                 mon.delivered[m.rowid] >= 1

\* C27 (as stated): no checkNewMessages invocation begins while monitoring
\* is stopped (not from the poll timer, the file watcher or a delayed check
\* scheduled earlier), and after any sequence of start and stop calls at
\* most one poll timer and one file watcher are active.
C27_StopStops ==
    /\ ~mon.beganStopped
    /\ mon.timers <= 1
    /\ mon.watchers <= 1


-----------------------------------------------------------------------------
(* SocketSpec: SocketService -- initialize, handleReconnect, the events of *)
(* its sockets, sendMessage and the message queue                          *)

\* sockets connect() creates in all, messages passed to sendMessage in all,
\* commands the server sends in all, reconnect timers pending at once
MaxSockets == 3
MaxMessages == 2
MaxCommands == 1
MaxTimers == 1

SocketIds == 1..MaxSockets

\* this.socket = null
NoSocket == 0

NoTask == [kind |-> "none", pc |-> "none"]

\* handleReconnect(): ++reconnectAttempts, setTimeout(connect, authenticate,
\* startHeartbeat)
handleReconnect(sk) ==
    [sk EXCEPT !.timers = IF @ < MaxTimers THEN @ + 1 ELSE @]

\* connect(): this.socket = io(serverUrl, { forceNew: true, ... })
connect(sk, kind) ==
    [sk EXCEPT !.created = @ + 1,
               !.socket = sk.created + 1,
               !.task = [kind |-> kind, pc |-> "connect"]]

\* setupEventHandlers(): handlers on the socket held at the time of the call
setupEventHandlers(sk) ==
    IF sk.socket = NoSocket THEN sk
    ELSE [sk EXCEPT !.handlers = @ \cup {sk.socket}]

\* processPendingMessages(): the queue is emitted in order and emptied
processPendingMessages(sk) ==
    IF sk.messageQueue # <<>> /\ sk.isConnected /\ sk.isAuthenticated
    THEN [sk EXCEPT !.emitted = @ \o sk.messageQueue, !.messageQueue = <<>>]
    ELSE sk

\* initialize(): up to the wait for the 'connect' event
SockInitialize ==
    /\ sock.pc = "constructed"
    /\ sock' = [connect(sock, "initialize") EXCEPT !.pc = "run"]
    /\ UNCHANGED <<corev, http, mon, overlap>>

\* 'connect' on the socket being awaited: connect() resolves; initialize goes
\* on to setupEventHandlers and both go on to emit device:authenticate
ConnectResolves ==
    /\ sock.task.pc = "connect"
    /\ LET a == [sock EXCEPT !.isConnected = TRUE,
                             !.live = @ \cup {sock.socket},
                             !.task.pc = "authenticate"]
       IN  sock' = IF sock.task.kind = "initialize"
                   THEN setupEventHandlers(a) ELSE a
    /\ UNCHANGED <<corev, http, mon, overlap>>

\* 'connect_error' or the 10 s timeout: connect() rejects; initialize throws
\* to initializeApp, which calls handleReconnect; the reconnect's catch
\* block calls handleReconnect
ConnectRejects ==
    /\ sock.task.pc = "connect"
    /\ sock' = handleReconnect([sock EXCEPT !.task = NoTask])
    /\ UNCHANGED <<corev, http, mon, overlap>>

\* 'device:authenticated': authenticate() resolves, startHeartbeat();
\* initialize goes on to processPendingMessages
AuthenticateResolves ==
    /\ sock.task.pc = "authenticate"
    /\ sock.socket \in sock.live
    /\ LET a == [sock EXCEPT !.isAuthenticated = TRUE, !.task = NoTask,
                             !.authed = @ \cup {sock.socket}]
       IN  sock' = IF sock.task.kind = "initialize"
                   THEN processPendingMessages(a) ELSE a
    /\ UNCHANGED <<corev, http, mon, overlap>>

\* 'device:auth_error' or the 10 s timeout: authenticate() rejects
AuthenticateRejects ==
    /\ sock.task.pc = "authenticate"
    /\ sock' = handleReconnect([sock EXCEPT !.task = NoTask])
    /\ UNCHANGED <<corev, http, mon, overlap>>

\* the timer set by handleReconnect expires: connect() is called
ReconnectTimer ==
    /\ sock.pc = "run"
    /\ sock.timers > 0
    /\ sock.task = NoTask
    /\ sock.created < MaxSockets
    /\ sock' = connect([sock EXCEPT !.timers = @ - 1], "reconnect")
    /\ UNCHANGED <<corev, http, mon, overlap>>

\* a connected socket loses its connection: 'disconnect' is emitted on it
SocketDisconnects ==
    /\ \E s \in sock.live :
         LET a == [sock EXCEPT !.live = @ \ {s}, !.authed = @ \ {s}]
         IN  sock' = IF s \in sock.handlers
                     THEN handleReconnect([a EXCEPT !.isConnected = FALSE,
                                                    !.isAuthenticated = FALSE])
                     ELSE a
    /\ UNCHANGED <<corev, http, mon, overlap>>

\* reconnection: true -- a socket that lost its connection connects again by
\* itself and 'connect' is emitted on it
SocketReconnects ==
    /\ \E s \in (1..sock.created) \ sock.live :
         /\ ~(sock.task.pc = "connect" /\ s = sock.socket)
         /\ sock' = [sock EXCEPT !.live = @ \cup {s}, !.isConnected = TRUE]
    /\ UNCHANGED <<corev, http, mon, overlap>>

\* sendMessage(messageData)
SockSendMessage ==
    /\ sock.pc = "run"
    /\ sock.passed < MaxMessages
    /\ LET id == sock.passed + 1
           a == [sock EXCEPT !.passed = id]
       IN  sock' = IF ~sock.isConnected \/ ~sock.isAuthenticated
                   THEN [a EXCEPT !.messageQueue = Append(@, id),
                                  !.queued = @ \cup {id}]
                   ELSE [a EXCEPT !.emitted = Append(@, id)]
    /\ UNCHANGED <<corev, http, mon, overlap>>

\* the server sends device:command / device:send_command to a device it
\* has authenticated: the handler, where installed, runs the command and
\* answers through sendCommandResponse
IncomingCommand ==
    /\ sock.received < MaxCommands
    /\ \E s \in sock.authed :
         sock' = [sock EXCEPT
                    !.received = @ + 1,
                    !.responses = IF s \in sock.handlers THEN @ + 1 ELSE @]
    /\ UNCHANGED <<corev, http, mon, overlap>>

SocketInit ==
    /\ now = StartNow
    /\ drow = NoRow
    /\ dstatus = "none"
    /\ message = {}
    /\ call = [c \in Calls |-> IdleCall]
    /\ isRead = {}
    /\ op = NoOp
    /\ dec = NoDec
    /\ batch = NoBatch
    /\ bridge = NoBridge
    /\ http = NoHttp
    /\ mon = NoMon
    /\ sock = [pc |-> "constructed", socket |-> NoSocket, created |-> 0,
               handlers |-> {}, live |-> {}, isConnected |-> FALSE,
               isAuthenticated |-> FALSE, task |-> NoTask, timers |-> 0,
               messageQueue |-> <<>>, emitted |-> <<>>, passed |-> 0,
               queued |-> {}, authed |-> {}, received |-> 0, responses |-> 0]
    /\ overlap = NoOverlap

SocketNext ==
    \/ SockInitialize
    \/ ConnectResolves
    \/ ConnectRejects
    \/ AuthenticateResolves
    \/ AuthenticateRejects
    \/ ReconnectTimer
    \/ SocketDisconnects
    \/ SocketReconnects
    \/ SockSendMessage
    \/ IncomingCommand

SocketSpec == SocketInit /\ [][SocketNext]_vars

-----------------------------------------------------------------------------
(* Claims on the socket service, checked under SocketSpec *)

\* the service is connected and authenticated and neither initialize nor a
\* reconnect is in progress
SockReady == sock.isConnected /\ sock.isAuthenticated /\ sock.task = NoTask

\* C28 (as stated): a message passed to sendMessage while the service is not
\* both connected and authenticated is kept in the queue until the service
\* next becomes connected and authenticated -- through initialize or
\* through a reconnect -- and is then emitted as device:new_message, once
\* and in the order queued: once the service is connected and
\* authenticated again no message is left in the queue, and what was
\* emitted holds every queued message once, in the order queued.
C28_QueueFlushed ==
    /\ \A i, j \in DOMAIN sock.emitted :
         i # j => sock.emitted[i] # sock.emitted[j]
    /\ \A id \in sock.queued :
         \/ \E i \in DOMAIN sock.messageQueue : sock.messageQueue[i] = id
         \/ \E i \in DOMAIN sock.emitted : sock.emitted[i] = id
    /\ SockReady =>
         /\ sock.messageQueue = <<>>
         /\ \A i, j \in DOMAIN sock.emitted :
              (i < j /\ sock.emitted[i] \in sock.queued
                     /\ sock.emitted[j] \in sock.queued) =>
                  sock.emitted[i] < sock.emitted[j]

\* C29 (as stated): whenever the service is connected and authenticated,
\* after initialize and after every reconnect, the socket it holds has the
\* disconnect, ping and command handlers installed, and every incoming
\* command has been answered with one device:command_response on the
\* socket it came in on.
C29_HandlersOnLiveSocket ==
    /\ SockReady => sock.socket \in sock.handlers
    /\ sock.responses = sock.received


-----------------------------------------------------------------------------
(* OverlapSpec: two batchDecode calls in progress at once.  A call runs    *)
(* without a break except at `await import('fs')`, which it reaches when   *)
(* its input directory does not exist yet.                                 *)

\* the calls, and the milliseconds the clock may advance while they wait
BridgeCallers == {1, 2}
MaxOverlapTicks == 1

NoOverlapCall == [pc |-> "idle", items |-> <<>>, t |-> 0, results |-> NoResults]

\* the temp directory after mkdirSync(inputDir) and the writes of the input
\* files and of the script
BatchWritten(files, t, items) ==
    LET names == {inputDir(t), batchScriptFile(t)}
                    \cup { slotFile(t, k) : k \in DOMAIN items }
    IN  [f \in DOMAIN files \cup names |->
            IF \E k \in DOMAIN items : f = slotFile(t, k)
            THEN FileOf(items[f[3]], <<>>, NoResults)
            ELSE IF f \in names THEN FileOf("none", <<>>, NoResults)
            ELSE files[f]]

\* the names the cleanup after a read removes: the output file, the script,
\* the call's input files, and with rmSync the directory and all it holds
BatchCleaned(files, t, items, requireDefined) ==
    {batchOutputFile(t), batchScriptFile(t)}
        \cup { slotFile(t, k) : k \in DOMAIN items }
        \cup (IF requireDefined
              THEN { f \in DOMAIN files : f[1] = "batch" /\ f[2] = t }
              ELSE {})

\* batchDecode from mkdirSync to its return, in one piece: the states it may
\* leave behind.  The script writes its output, which is read and cleaned
\* up; or the script fails with no output and the outer catch returns null
\* results, nothing cleaned up; or the first write throws.
BatchRuns(ov, c) ==
    LET t == ov.call[c].t
        items == ov.call[c].items
        written == BatchWritten(ov.files, t, items)
        nulls == [k \in DOMAIN items |-> <<>>]
        dirOnly == WithFile(ov.files, inputDir(t), FileOf("none", <<>>, NoResults))
    IN  { [ov EXCEPT !.clock = @ + 1,
                     !.files = Without(written,
                                       BatchCleaned(written, t, items, requireDefined)),
                     !.call[c].pc = "done",
                     !.call[c].results = BatchScriptResults(written, t)] :
            requireDefined \in BOOLEAN }
        \cup { [ov EXCEPT !.clock = @ + 1, !.files = written,
                          !.call[c].pc = "done", !.call[c].results = nulls] }
        \cup { [ov EXCEPT !.files = dirOnly,
                          !.call[c].pc = "done", !.call[c].results = nulls] }

\* batchDecode(items) is called: batchId = Date.now(), the names are made;
\* with the input directory there already the call runs on at once
OvBatchCall(c) ==
    /\ overlap.pc = "run"
    /\ overlap.call[c].pc = "idle"
    /\ \E items \in BatchItems :
         LET started == [overlap EXCEPT
                           !.call[c] = [pc |-> "import", items |-> items,
                                        t |-> overlap.clock,
                                        results |-> NoResults]]
         IN  IF inputDir(overlap.clock) \in DOMAIN overlap.files
             THEN overlap' \in BatchRuns(started, c)
             ELSE overlap' = started
    /\ UNCHANGED <<corev, http, mon, sock>>

\* `await import('fs')` comes back and the call runs to its return
OvBatchResume(c) ==
    /\ overlap.pc = "run"
    /\ overlap.call[c].pc = "import"
    /\ overlap' \in BatchRuns(overlap, c)
    /\ UNCHANGED <<corev, http, mon, sock>>

\* a millisecond passes
OvTick ==
    /\ overlap.pc = "run"
    /\ overlap.ticks < MaxOverlapTicks
    /\ overlap' = [overlap EXCEPT !.clock = @ + 1, !.ticks = @ + 1]
    /\ UNCHANGED <<corev, http, mon, sock>>

OverlapInit ==
    /\ now = StartNow
    /\ drow = NoRow
    /\ dstatus = "none"
    /\ message = {}
    /\ call = [c \in Calls |-> IdleCall]
    /\ isRead = {}
    /\ op = NoOp
    /\ dec = NoDec
    /\ batch = NoBatch
    /\ bridge = NoBridge
    /\ http = NoHttp
    /\ mon = NoMon
    /\ sock = NoSock
    /\ overlap = [pc |-> "run", clock |-> 0, ticks |-> 0, files |-> <<>>,
                  call |-> [c \in BridgeCallers |-> NoOverlapCall]]

OverlapNext ==
    \/ OvTick
    \/ \E c \in BridgeCallers :
         \/ OvBatchCall(c)
         \/ OvBatchResume(c)

OverlapSpec == OverlapInit /\ [][OverlapNext]_vars

-----------------------------------------------------------------------------
(* Claims on overlapping bridge calls, checked under OverlapSpec *)

\* C30 (as stated): in every interleaving of two batchDecode calls, also
\* two that start within the same clock millisecond, the calls use
\* disjoint input directories, script files and output files, and each
\* call returns results for the ids of its own input items only.
C30_DisjointArtifacts ==
    /\ \A c, d \in BridgeCallers :
         (c # d /\ overlap.call[c].pc = "import" /\ overlap.call[d].pc = "import") =>
            {inputDir(overlap.call[c].t), batchScriptFile(overlap.call[c].t),
             batchOutputFile(overlap.call[c].t)}
              \cap {inputDir(overlap.call[d].t), batchScriptFile(overlap.call[d].t),
                    batchOutputFile(overlap.call[d].t)} = {}
    /\ \A c \in BridgeCallers :
         overlap.call[c].pc = "done" =>
            DOMAIN overlap.call[c].results = DOMAIN overlap.call[c].items

=============================================================================
